---- MODULE Spec2Model ----
(***************************************************************************)
(* State-machine model of the yapp-sdk payment request protocol:           *)
(* PaymentManager (src/src/index.ts 189-595) on top of                     *)
(* CommunicationManager (src/src/index.ts 946-1119).                       *)
(*                                                                         *)
(* JavaScript strings whose bytes matter (memo, addressOrEns, chainId) are *)
(* sequences of Unicode code points; other strings are TLA+ strings.       *)
(* An absent value (undefined / null) is the sentinel of its domain.       *)
(***************************************************************************)
EXTENDS Integers, Sequences, FiniteSets, TLC

(***************************************************************************)
(* Bounds of the model.                                                    *)
(***************************************************************************)
MaxReq == 2

\* createValidMemoFromUUID is applied to strings of up to MaxAscii one-byte
\* characters, MaxWide three-byte characters and 2 * MaxHyphen hyphens
MaxAscii == 33
MaxWide == 11
MaxHyphen == 2

ReqIds == 1..MaxReq

(***************************************************************************)
(* Values.                                                                 *)
(***************************************************************************)
NoStr == "<absent>"
Absent == <<-1>>

Num(n) == [t |-> "number", v |-> n]
NaN == [t |-> "NaN", v |-> 0]
PosInfinity == [t |-> "Infinity", v |-> 1]
Undefined == [t |-> "undefined", v |-> 0]

\* '||' and '&&' on strings: undefined, null and '' are falsy
Truthy(s) == s # Absent /\ s # <<>>

TruthyStr(s) == s # NoStr /\ s # ""

RECURSIVE Repeat(_, _)
Repeat(c, n) == IF n = 0 THEN <<>> ELSE <<c>> \o Repeat(c, n - 1)

\* "m1", and an 11-character memo of 33 bytes (11 euro signs)
Memo1 == <<109, 49>>
MemoWide == Repeat(8364, 11)

\* "bob.eth", the UUID-like "a-b", and a 42-character 0x address
AddrEns == <<98, 111, 98, 46, 101, 116, 104>>
AddrUuid == <<97, 45, 98>>
AddrHex == <<48, 120>> \o Repeat(97, 40)

(***************************************************************************)
(* memoValidation.ts                                                       *)
(***************************************************************************)
\* TextEncoder: bytes of one code point in UTF-8
Utf8Bytes(cp) ==
  IF cp < 128 THEN 1 ELSE IF cp < 2048 THEN 2 ELSE IF cp < 65536 THEN 3 ELSE 4

RECURSIVE Utf8Length(_)
Utf8Length(s) == IF s = <<>> THEN 0 ELSE Utf8Bytes(Head(s)) + Utf8Length(Tail(s))

MAX_MEMO_BYTES == 32

\* variant: the characters are counted, not the encoded bytes
isValidMemoSize_CountsCharacters(memo) == Len(memo) <= MAX_MEMO_BYTES

isValidMemoSize(memo) == Utf8Length(memo) <= MAX_MEMO_BYTES

\* uuid.replace(/-/g, '')
RECURSIVE RemoveHyphens(_)
RemoveHyphens(s) ==
  IF s = <<>> THEN <<>>
  ELSE IF Head(s) = 45 THEN RemoveHyphens(Tail(s))
  ELSE <<Head(s)>> \o RemoveHyphens(Tail(s))

\* variant: a string that does not fit is cut to its first 32 characters
createValidMemoFromUUID_Truncates(uuid) ==
  LET compactUUID == RemoveHyphens(uuid) IN
  IF compactUUID = <<>> THEN [ok |-> TRUE, memo |-> <<>>]
  ELSE IF isValidMemoSize(compactUUID) THEN [ok |-> TRUE, memo |-> compactUUID]
  ELSE [ok |-> TRUE,
        memo |-> SubSeq(compactUUID, 1, IF Len(compactUUID) < 32 THEN Len(compactUUID) ELSE 32)]

\* result: [ok |-> TRUE, memo] or [ok |-> FALSE] for the thrown 'Memo is too long'
createValidMemoFromUUID(uuid) ==
  LET compactUUID == RemoveHyphens(uuid) IN
  IF compactUUID = <<>> THEN [ok |-> TRUE, memo |-> <<>>]
  ELSE IF isValidMemoSize(compactUUID) THEN [ok |-> TRUE, memo |-> compactUUID]
  ELSE [ok |-> FALSE, memo |-> <<>>]

\* createValidMemoFromUUID was not called
NotApplied == [ok |-> FALSE, memo |-> Absent]

(***************************************************************************)
(* currency validation                                                     *)
(***************************************************************************)
FiatCurrency ==
  {"EUR", "USD", "GBP", "JPY", "CNY", "KRW", "INR", "RUB", "TRY", "BRL", "CAD",
   "AUD", "NZD", "CHF", "ILS", "MXN", "IDR", "THB", "VND", "SGD", "PHP", "PLN",
   "SEK"}

\* Object.values(FiatCurrency).includes(currency): undefined is not a member
isValidFiatCurrency(currency) == currency \in FiatCurrency

(***************************************************************************)
(* Origins.  new URL(s) on the strings of the model: scheme, host and port *)
(* (the default port of the scheme when none is written), or a TypeError.  *)
(***************************************************************************)
DefaultPort(scheme) == IF scheme = "https" THEN 443 ELSE 80

\* a URL of a scheme with a tuple origin: the origin is (scheme, host, port)
Url(scheme, host, port) ==
  LET p == IF port = 0 THEN DefaultPort(scheme) ELSE port
  IN [ok |-> TRUE, scheme |-> scheme, host |-> host, port |-> p,
      origin |-> <<scheme, host, p>>]

\* a blob: URL has no host and no port; its origin is the origin of the URL in its path
BlobUrl(inner) ==
  [ok |-> TRUE, scheme |-> "blob", host |-> "", port |-> 0, origin |-> inner.origin]

BadUrl == [ok |-> FALSE, scheme |-> "", host |-> "", port |-> 0, origin |-> <<>>]

NewURL(s) ==
  CASE s = "https://yodl.me" -> Url("https", "yodl.me", 0)
    [] s = "https://yodl.me:443" -> Url("https", "yodl.me", 443)
    [] s = "https://yodl.me:8443" -> Url("https", "yodl.me", 8443)
    [] s = "http://yodl.me" -> Url("http", "yodl.me", 0)
    [] s = "https://evil.example" -> Url("https", "evil.example", 0)
    [] s = "https://yodl.me/pay" -> Url("https", "yodl.me", 0)
    [] s = "blob:https://yodl.me/1f" -> BlobUrl(Url("https", "yodl.me", 0))
    [] OTHER -> BadUrl

\* URL.origin
OriginOf(u) == u.origin

ConfigOrigins == {"https://yodl.me", "yodl.me"}

SenderOrigins == {"https://yodl.me", "https://evil.example", "null"}

(***************************************************************************)
(* The window.  top = "SecurityError" models an access to window.top that  *)
(* throws.                                                                 *)
(***************************************************************************)
TopWindow == [self |-> "w", parent |-> "w", top |-> "w"]
FramedWindow == [self |-> "w", parent |-> "p", top |-> "p"]
CrossOriginFramedWindow == [self |-> "w", parent |-> "p", top |-> "SecurityError"]

\* typeof window === 'undefined': getSafeWindow() returns null
NoWindow == [self |-> "undefined", parent |-> "undefined", top |-> "undefined"]

Windows == {TopWindow, FramedWindow}

(***************************************************************************)
(* Message kinds, payloads, outcomes.                                      *)
(***************************************************************************)
PAYMENT_SUCCESS == "PAYMENT_SUCCESS"
PAYMENT_CANCELLED == "PAYMENT_CANCELLED"
ENS_NOT_FOUND == "ENS_NOT_FOUND"
USER_CONTEXT_RESPONSE == "USER_CONTEXT_RESPONSE"

ResponseKinds == {PAYMENT_SUCCESS, PAYMENT_CANCELLED, ENS_NOT_FOUND}

MessageKinds == ResponseKinds \cup {USER_CONTEXT_RESPONSE, "UNKNOWN"}

NoPayload == [txHash |-> NoStr, chainId |-> Undefined, ensName |-> Absent]

NoOutcome == [k |-> "none", msg |-> "", arg |-> <<>>, txHash |-> NoStr, chainId |-> Undefined]

Pending == [NoOutcome EXCEPT !.k = "pending"]

Resolved(txHash, chainId) ==
  [NoOutcome EXCEPT !.k = "resolved", !.txHash = txHash, !.chainId = chainId]

\* resolve(response.payload) of a user context request
ResolvedWith(payload) == [NoOutcome EXCEPT !.k = "resolved", !.arg = payload]

Rejected(msg) == [NoOutcome EXCEPT !.k = "rejected", !.msg = msg]

RejectedWith(msg, arg) == [NoOutcome EXCEPT !.k = "rejected", !.msg = msg, !.arg = arg]

ErrMemo == "Memo exceeds maximum size of 32 bytes"
ErrCurrency == "Invalid currency"
ErrAmount == "Amount must be a positive number"
ErrRedirect == "Redirect URL is required when running outside of an iframe"
ErrCancelled == "Payment was cancelled"
ErrTimeout == "Payment request timed out"
ErrFailed == "Payment failed"
ErrEns == "ENS name not found"
ErrOrigin == "Invalid origin"
ErrNotIframe == "Cannot send message: SDK is not running in an iframe"
ErrMemoTooLong == "Memo is too long"
ErrInvalidUrl == "TypeError: Invalid URL"
ErrNoWindow == "Cannot access window object"
ErrContextTimeout == "User context request timed out"
ErrNotInitialized == "SDK not initialized. Please wait for initialization to complete."

(***************************************************************************)
(* State.                                                                  *)
(***************************************************************************)
VARIABLES
  allowedOrigin,       \* CommunicationManager.allowedOrigin
  win,                 \* the window the SDK runs in
  messageListeners,    \* kind -> sequence of listeners <<request, kind>>
  timer,               \* request -> state of the request's setTimeout handle
  promise,             \* request -> outcome of the promise returned to the caller
  path,                \* request -> transport handler entered
  captured,            \* request -> what its closures captured: the recipient (in-frame
                       \* listeners), the memo (return handler), the identity of the
                       \* array 'listeners' (MessageManager.getUserContext)
  posted,              \* messages posted to the parent window, in order
  storage,             \* sessionStorage[STORAGE_KEY]
  visibilityHandlers,  \* 'visibilitychange' listeners on document, in order
  url,                 \* query parameters of window.location
  navigated,           \* assignments to window.location.href, in order: the request,
                       \* the origin and the memo parameter of the payment URL
  history,             \* calls of the History API (window.history), in order
  contextListeners,    \* MessageManager (utils): identity of the array stored under
                       \* USER_CONTEXT_RESPONSE in its messageListeners; 0: no entry
  messaging,           \* YappSDK: whether its manager fields are set
  messageHooks,        \* number of 'message' listeners the manager installed on window
  calls,               \* what the last step called, in order: <<request, callee>>
  memoInput,           \* createValidMemoFromUUID: the string it is applied to
  memoResult,          \* createValidMemoFromUUID: what it returned or threw
  memoAgain,           \* createValidMemoFromUUID applied to its own result
  memoValid,           \* isValidMemoSize: what it returned for memoInput
  ev                   \* the event handled by the last step

vars ==
  <<allowedOrigin, win, messageListeners, timer, promise, path, captured, posted,
    storage, visibilityHandlers, url, navigated, history, contextListeners, messaging,
    messageHooks, calls, memoInput, memoResult, memoAgain, memoValid, ev>>

\* what no handler of the SDK changes
fixed ==
  <<allowedOrigin, win, messaging, messageHooks, memoInput, memoResult, memoAgain, memoValid>>

NoRecord ==
  [present |-> FALSE, memo |-> Absent, timestamp |-> 0, redirectUrl |-> NoStr,
   timeoutId |-> 0]

NoUrl == [memo |-> Absent, status |-> NoStr, txHash |-> NoStr, chainId |-> Absent]

NoConfig ==
  [addressOrEns |-> <<>>, memo |-> Absent, currency |-> NoStr, amount |-> Undefined,
   redirectUrl |-> NoStr]

\* op: the kind of event; id: its request; config: the caller's config; origin: the
\* sender of a message or the origin passed to a call; type: the visibility state or
\* the kind of a user context message;
\* url: the query the step started with; result: what a synchronous call returned or
\* the message of the error it threw; payload: the user context a message carried
NoEvent ==
  [op |-> "none", id |-> 0, config |-> NoConfig, origin |-> "", type |-> "",
   url |-> NoUrl, result |-> "", payload |-> Absent]

\* the mutable state the handlers work on, as one record; every step starts with an
\* empty list of calls
State ==
  [messageListeners |-> messageListeners, timer |-> timer, promise |-> promise,
   path |-> path, captured |-> captured, posted |-> posted, storage |-> storage,
   visibilityHandlers |-> visibilityHandlers, url |-> url, navigated |-> navigated,
   history |-> history, contextListeners |-> contextListeners, calls |-> <<>>]

Becomes(st) ==
  /\ messageListeners' = st.messageListeners
  /\ timer' = st.timer
  /\ promise' = st.promise
  /\ path' = st.path
  /\ captured' = st.captured
  /\ posted' = st.posted
  /\ storage' = st.storage
  /\ visibilityHandlers' = st.visibilityHandlers
  /\ url' = st.url
  /\ navigated' = st.navigated
  /\ history' = st.history
  /\ contextListeners' = st.contextListeners
  /\ calls' = st.calls

(***************************************************************************)
(* Promise, timers.                                                        *)
(***************************************************************************)
\* variant: every resolve / reject call replaces the outcome
Settle_LastCallWins(st, r, outcome) == [st EXCEPT !.promise[r] = outcome]

\* resolve / reject of the promise of request r: only the first call settles it
Settle(st, r, outcome) ==
  IF st.promise[r].k = "pending" THEN [st EXCEPT !.promise[r] = outcome] ELSE st

\* the step called 'what' on behalf of request r
Log(st, r, what) == [st EXCEPT !.calls = Append(@, <<r, what>>)]

setTimeout(st, t) == Log([st EXCEPT !.timer[t] = "armed"], t, "setTimeout")

clearTimeout(st, t) ==
  IF t \in ReqIds /\ st.timer[t] = "armed"
  THEN Log([st EXCEPT !.timer[t] = "cleared"], t, "clearTimeout")
  ELSE Log(st, t, "clearTimeout")

(***************************************************************************)
(* CommunicationManager                                                    *)
(***************************************************************************)
isBrowser == win # NoWindow

\* the number of 'message' listeners on window after setupMessageListener
setupMessageListener(hooks) == IF win = NoWindow THEN hooks ELSE hooks + 1

\* variant: the constructor installs the hook a second time
CommunicationManager_constructor_Twice ==
  IF isBrowser THEN setupMessageListener(setupMessageListener(0)) ELSE 0

\* the number of 'message' listeners on window after the constructor
CommunicationManager_constructor == IF isBrowser THEN setupMessageListener(0) ELSE 0

isOriginAllowed(origin) ==
  LET allowedUrl == NewURL(allowedOrigin)
      testUrl == NewURL(origin)
  IN IF ~allowedUrl.ok \/ ~testUrl.ok THEN FALSE
     ELSE OriginOf(allowedUrl) = OriginOf(testUrl)

addMessageListener(st, messageType, listener) ==
  [st EXCEPT !.messageListeners[messageType] = Append(@, listener)]

\* variant: the whole list of the kind is dropped
removeMessageListener_RemovesKind(st, messageType, listener) ==
  [st EXCEPT !.messageListeners[messageType] = <<>>]

\* messageListeners[kind] = <<>> stands for a Map without an entry for the kind: no
\* empty array is ever stored
removeMessageListener(st, messageType, listener) ==
  [st EXCEPT !.messageListeners[messageType] = SelectSeq(@, LAMBDA l : l # listener)]

\* variant: the parent window is not compared with the own window
sendMessageToParentResult_NoParentCheck(targetOrigin) ==
  IF ~isOriginAllowed(targetOrigin) THEN ErrOrigin
  ELSE IF win = NoWindow THEN ErrNotIframe
  ELSE "ok"

\* "ok", or the message of the error thrown
sendMessageToParentResult(targetOrigin) ==
  IF ~isOriginAllowed(targetOrigin) THEN ErrOrigin
  ELSE IF win = NoWindow \/ win.parent = win.self THEN ErrNotIframe
  ELSE "ok"

postMessage(st, type, targetOrigin, r) ==
  [st EXCEPT !.posted = Append(@, [type |-> type, targetOrigin |-> targetOrigin, id |-> r])]

\* variant: a window.top that cannot be read counts as not embedded
isInIframe_FalseOnError ==
  IF win = NoWindow THEN FALSE
  ELSE IF win.top = "SecurityError" THEN FALSE ELSE win.self # win.top

isInIframe ==
  IF win = NoWindow THEN FALSE
  ELSE IF win.top = "SecurityError" THEN TRUE ELSE win.self # win.top

(***************************************************************************)
(* PaymentManager: in-frame path                                           *)
(***************************************************************************)
Listener(r, kind) == <<r, kind>>

RequestListeners(r) ==
  << Listener(r, PAYMENT_SUCCESS), Listener(r, PAYMENT_CANCELLED),
     Listener(r, ENS_NOT_FOUND) >>

\* variant: the success listener leaves the timer running
successListener_KeepsTimer(st, r, response) ==
  LET s2 == removeMessageListener(st, PAYMENT_CANCELLED, Listener(r, PAYMENT_CANCELLED))
      s3 == removeMessageListener(s2, ENS_NOT_FOUND, Listener(r, ENS_NOT_FOUND))
  IN Settle(s3, r, Resolved(response.payload.txHash, response.payload.chainId))

successListener(st, r, response) ==
  LET s1 == clearTimeout(st, r)
      s2 == removeMessageListener(s1, PAYMENT_CANCELLED, Listener(r, PAYMENT_CANCELLED))
      s3 == removeMessageListener(s2, ENS_NOT_FOUND, Listener(r, ENS_NOT_FOUND))
  IN Settle(s3, r, Resolved(response.payload.txHash, response.payload.chainId))

\* variant: the cancellation listener leaves the other listeners registered
cancelListener_KeepsOthers(st, r, response) ==
  Settle(clearTimeout(st, r), r, Rejected(ErrCancelled))

cancelListener(st, r, response) ==
  LET s1 == clearTimeout(st, r)
      s2 == removeMessageListener(s1, PAYMENT_SUCCESS, Listener(r, PAYMENT_SUCCESS))
      s3 == removeMessageListener(s2, ENS_NOT_FOUND, Listener(r, ENS_NOT_FOUND))
  IN Settle(s3, r, Rejected(ErrCancelled))

ensNotFoundListener(st, r, response) ==
  LET s1 == clearTimeout(st, r)
      s2 == removeMessageListener(s1, PAYMENT_SUCCESS, Listener(r, PAYMENT_SUCCESS))
      s3 == removeMessageListener(s2, PAYMENT_CANCELLED, Listener(r, PAYMENT_CANCELLED))
      ensName == IF Truthy(response.payload.ensName) THEN response.payload.ensName
                 ELSE st.captured[r].addressOrEns
  IN Settle(s3, r, RejectedWith(ErrEns, ensName))

\* the listener of getUserContext; it leaves the timer running
userContextListener(st, r, response) == Settle(st, r, ResolvedWith(response.payload))

\* the listeners of MessageManager.handleIframePayment (utils/MessageManager.ts): each
\* deletes the whole list of the other kind
MessageManager_successListener(st, r, response) ==
  LET s1 == clearTimeout(st, r)
      s2 == [s1 EXCEPT !.messageListeners[PAYMENT_CANCELLED] = <<>>]
  IN Settle(s2, r, Resolved(response.payload.txHash, response.payload.chainId))

MessageManager_cancelListener(st, r, response) ==
  LET s1 == clearTimeout(st, r)
      s2 == [s1 EXCEPT !.messageListeners[PAYMENT_SUCCESS] = <<>>]
  IN Settle(s2, r, Rejected(ErrCancelled))

\* the callback behind a registered listener; <<c, "callback">> is a callback that
\* touches nothing of the SDK
Invoke(st, listener, response) ==
  LET s0 == [st EXCEPT !.calls = Append(@, listener)] IN
  CASE listener[2] = PAYMENT_SUCCESS -> successListener(s0, listener[1], response)
    [] listener[2] = USER_CONTEXT_RESPONSE -> userContextListener(s0, listener[1], response)
    [] listener[2] = PAYMENT_CANCELLED -> cancelListener(s0, listener[1], response)
    [] listener[2] = "callback" -> s0
    [] listener[2] = "MessageManager.PAYMENT_SUCCESS" ->
         MessageManager_successListener(s0, listener[1], response)
    [] listener[2] = "MessageManager.PAYMENT_CANCELLED" ->
         MessageManager_cancelListener(s0, listener[1], response)
    [] OTHER -> ensNotFoundListener(s0, listener[1], response)

\* listeners.forEach((listener) => listener(message))
RECURSIVE forEachListener(_, _, _)
forEachListener(st, listeners, message) ==
  IF listeners = <<>> THEN st
  ELSE forEachListener(Invoke(st, Head(listeners), message), Tail(listeners), message)

\* variant: the hook leaves the callbacks of the delivered kind registered
onMessage_KeepsListeners(st, event) ==
  IF ~isOriginAllowed(event.origin) THEN st
  ELSE forEachListener(st, st.messageListeners[event.type], event)

\* variant: the hook calls the first callback of the kind only
onMessage_FirstListenerOnly(st, event) ==
  IF ~isOriginAllowed(event.origin) THEN st
  ELSE LET listeners == st.messageListeners[event.type] IN
       IF listeners = <<>> THEN st
       ELSE [Invoke(st, Head(listeners), event) EXCEPT !.messageListeners[event.type] = <<>>]

\* variant: the hook does not look at the sender's origin
onMessage_NoOriginCheck(st, event) ==
  LET listeners == st.messageListeners[event.type] IN
  IF listeners = <<>> THEN st
  ELSE [forEachListener(st, listeners, event) EXCEPT !.messageListeners[event.type] = <<>>]

\* the window 'message' hook installed by setupMessageListener
onMessage(st, event) ==
  IF ~isOriginAllowed(event.origin) THEN st
  ELSE LET listeners == st.messageListeners[event.type] IN
       IF listeners = <<>> THEN st
       ELSE [forEachListener(st, listeners, event) EXCEPT !.messageListeners[event.type] = <<>>]

\* the event is handed to every 'message' listener installed on window
RECURSIVE dispatchMessage(_, _, _)
dispatchMessage(st, event, hooks) ==
  IF hooks = 0 THEN st ELSE dispatchMessage(onMessage(st, event), event, hooks - 1)

RECURSIVE removeListeners(_, _)
removeListeners(st, listeners) ==
  IF listeners = <<>> THEN st
  ELSE removeListeners(removeMessageListener(st, Head(listeners)[2], Head(listeners)),
                       Tail(listeners))

(***************************************************************************)
(* CommunicationManager: user context, close                               *)
(***************************************************************************)
\* variant: the window is looked at after the listener and the timer are set up
getUserContext_ChecksWindowLate(st, r) ==
  LET s0 == [st EXCEPT !.path[r] = "userContext", !.promise[r] = Pending]
      listener == Listener(r, USER_CONTEXT_RESPONSE)
      s1 == addMessageListener(s0, USER_CONTEXT_RESPONSE, listener)
      s2 == setTimeout(s1, r)
      sent == sendMessageToParentResult(allowedOrigin)
  IN IF sent = "ok" THEN postMessage(s2, "USER_CONTEXT_REQUEST", allowedOrigin, r)
     ELSE IF win = NoWindow THEN Settle(s2, r, Rejected(ErrNoWindow))
     ELSE Settle(removeMessageListener(clearTimeout(s2, r), USER_CONTEXT_RESPONSE, listener),
                 r, Rejected(sent))

getUserContext(st, r) ==
  LET s0 == [st EXCEPT !.path[r] = "userContext", !.promise[r] = Pending]
      listener == Listener(r, USER_CONTEXT_RESPONSE)
      s1 == addMessageListener(s0, USER_CONTEXT_RESPONSE, listener)
      s2 == setTimeout(s1, r)
      sent == sendMessageToParentResult(allowedOrigin)
  IN IF win = NoWindow THEN Settle(s0, r, Rejected(ErrNoWindow))
     ELSE IF sent = "ok" THEN postMessage(s2, "USER_CONTEXT_REQUEST", allowedOrigin, r)
     ELSE Settle(removeMessageListener(clearTimeout(s2, r), USER_CONTEXT_RESPONSE, listener),
                 r, Rejected(sent))

\* the callback of the 5 second timer of getUserContext
userContextTimeoutFires(st, r) ==
  Settle(removeMessageListener(st, USER_CONTEXT_RESPONSE, Listener(r, USER_CONTEXT_RESPONSE)),
         r, Rejected(ErrContextTimeout))

\* the state a call of sendCloseMessage leaves; what it throws is
\* sendMessageToParentResult(targetOrigin)
sendCloseMessage(st, targetOrigin) ==
  IF sendMessageToParentResult(targetOrigin) = "ok"
  THEN postMessage(st, "CLOSE", targetOrigin, 0) ELSE st

(***************************************************************************)
(* MessageManager (utils/MessageManager.ts), the manager of the older      *)
(* facade: its getUserContext keeps the array it pushed its listener into. *)
(* An array created by request r has identity r, an array created by the   *)
(* filter of r's timeout has identity MaxReq + r; a listener is in the     *)
(* array 'listeners' of r when its request captured the same array.        *)
(***************************************************************************)
MessageManager_getUserContext(st, r) ==
  LET s0 == [st EXCEPT !.path[r] = "MessageManager.userContext", !.promise[r] = Pending]
      listeners == IF st.contextListeners = 0 THEN r ELSE st.contextListeners
      s1 == [s0 EXCEPT !.messageListeners[USER_CONTEXT_RESPONSE] =
                           Append(@, Listener(r, USER_CONTEXT_RESPONSE)),
                       !.captured[r].listeners = listeners,
                       !.contextListeners = listeners]
      s2 == setTimeout(s1, r)
  IN IF win = NoWindow THEN Settle(s0, r, Rejected(ErrNoWindow))
     ELSE postMessage(s2, "USER_CONTEXT_REQUEST", allowedOrigin, r)

MessageManager_userContextTimeoutFires(st, r) ==
  LET remainingListeners == st.messageListeners[USER_CONTEXT_RESPONSE]
      filteredListeners ==
        SelectSeq(remainingListeners,
                  LAMBDA l : st.captured[l[1]].listeners # st.captured[r].listeners)
      s1 == IF Len(filteredListeners) > 0
            THEN [st EXCEPT !.messageListeners[USER_CONTEXT_RESPONSE] = filteredListeners,
                            !.contextListeners = MaxReq + r]
            ELSE [st EXCEPT !.messageListeners[USER_CONTEXT_RESPONSE] = <<>>,
                            !.contextListeners = 0]
  IN Settle(s1, r, Rejected(ErrContextTimeout))

\* the callback scheduled by MessageManager.setupPaymentTimeout
MessageManager_paymentTimeoutFires(st, r) ==
  Settle([st EXCEPT !.messageListeners[PAYMENT_SUCCESS] = <<>>,
                    !.messageListeners[PAYMENT_CANCELLED] = <<>>],
         r, Rejected(ErrTimeout))

MessageManager_handleIframePayment(st, r, payload) ==
  LET s0 == [st EXCEPT !.path[r] = "MessageManager.iframe"]
      s1 == setTimeout(s0, r)
      s2 == [s1 EXCEPT !.messageListeners[PAYMENT_SUCCESS] =
                           Append(@, Listener(r, "MessageManager.PAYMENT_SUCCESS"))]
      s3 == [s2 EXCEPT !.messageListeners[PAYMENT_CANCELLED] =
                           Append(@, Listener(r, "MessageManager.PAYMENT_CANCELLED"))]
      sent == sendMessageToParentResult(allowedOrigin)
  IN IF sent = "ok" THEN postMessage(s3, "PAYMENT_REQUEST", allowedOrigin, r)
     ELSE Settle([clearTimeout(s3, r) EXCEPT !.messageListeners[PAYMENT_SUCCESS] = <<>>,
                                             !.messageListeners[PAYMENT_CANCELLED] = <<>>],
                 r, Rejected(sent))

\* the window 'message' hook of MessageManager
MessageManager_onMessage(st, event) ==
  IF ~isOriginAllowed(event.origin) THEN st
  ELSE LET listeners == st.messageListeners[event.type] IN
       IF listeners = <<>> THEN st
       ELSE [forEachListener(st, listeners, event) EXCEPT
               !.messageListeners[event.type] = <<>>,
               !.contextListeners = IF event.type = USER_CONTEXT_RESPONSE THEN 0 ELSE @]

\* variant: the timeout deletes the whole list of each outcome kind
paymentTimeoutFires_DeletesKinds(st, r) ==
  Settle([st EXCEPT !.messageListeners = [k \in DOMAIN @ |-> IF k \in ResponseKinds THEN <<>> ELSE @[k]]],
         r, Rejected(ErrTimeout))

\* the callback scheduled by setupPaymentTimeout
paymentTimeoutFires(st, r) ==
  Settle(removeListeners(st, RequestListeners(r)), r, Rejected(ErrTimeout))

\* variant: a failed send only rejects, the timer and the listeners stay
handleIframePayment_NoCleanup(st, r, payload) ==
  LET s0 == [st EXCEPT !.path[r] = "iframe",
                       !.captured[r] = [addressOrEns |-> payload.addressOrEns, memo |-> Absent, listeners |-> 0]]
      s1 == setTimeout(s0, r)
      s2 == addMessageListener(s1, PAYMENT_SUCCESS, Listener(r, PAYMENT_SUCCESS))
      s3 == addMessageListener(s2, PAYMENT_CANCELLED, Listener(r, PAYMENT_CANCELLED))
      s4 == addMessageListener(s3, ENS_NOT_FOUND, Listener(r, ENS_NOT_FOUND))
      sent == sendMessageToParentResult(allowedOrigin)
  IN IF sent = "ok" THEN postMessage(s4, "PAYMENT_REQUEST", allowedOrigin, r)
     ELSE Settle(s4, r, Rejected(sent))

\* variant: the request is posted to any origin ('*')
handleIframePayment_PostsToAnyOrigin(st, r, payload) ==
  LET s0 == [st EXCEPT !.path[r] = "iframe",
                       !.captured[r] = [addressOrEns |-> payload.addressOrEns, memo |-> Absent, listeners |-> 0]]
      s1 == setTimeout(s0, r)
      s2 == addMessageListener(s1, PAYMENT_SUCCESS, Listener(r, PAYMENT_SUCCESS))
      s3 == addMessageListener(s2, PAYMENT_CANCELLED, Listener(r, PAYMENT_CANCELLED))
      s4 == addMessageListener(s3, ENS_NOT_FOUND, Listener(r, ENS_NOT_FOUND))
      sent == sendMessageToParentResult(allowedOrigin)
  IN IF sent = "ok" THEN postMessage(s4, "PAYMENT_REQUEST", "*", r)
     ELSE Settle(removeListeners(clearTimeout(s4, r), RequestListeners(r)), r, Rejected(sent))

handleIframePayment(st, r, payload) ==
  LET s0 == [st EXCEPT !.path[r] = "iframe",
                       !.captured[r] = [addressOrEns |-> payload.addressOrEns, memo |-> Absent, listeners |-> 0]]
      s1 == setTimeout(s0, r)
      s2 == addMessageListener(s1, PAYMENT_SUCCESS, Listener(r, PAYMENT_SUCCESS))
      s3 == addMessageListener(s2, PAYMENT_CANCELLED, Listener(r, PAYMENT_CANCELLED))
      s4 == addMessageListener(s3, ENS_NOT_FOUND, Listener(r, ENS_NOT_FOUND))
      sent == sendMessageToParentResult(allowedOrigin)
  IN IF sent = "ok" THEN postMessage(s4, "PAYMENT_REQUEST", allowedOrigin, r)
     ELSE Settle(removeListeners(clearTimeout(s4, r), RequestListeners(r)), r, Rejected(sent))

(***************************************************************************)
(* PaymentManager: redirect path                                           *)
(***************************************************************************)
\* parseInt(s, 10) on a string of the model: the leading decimal digits
RECURSIVE DigitsValue(_, _)
DigitsValue(s, acc) ==
  IF s = <<>> \/ Head(s) < 48 \/ Head(s) > 57 THEN acc
  ELSE DigitsValue(Tail(s), acc * 10 + (Head(s) - 48))

parseInt(s) ==
  IF s = <<>> \/ Head(s) < 48 \/ Head(s) > 57 THEN NaN ELSE Num(DigitsValue(s, 0))

removeVisibilityHandler(st, r) ==
  [st EXCEPT !.visibilityHandlers = SelectSeq(@, LAMBDA h : h # r)]

\* window.history.replaceState: the URL changes in the current history entry
replaceState(st, cleanUrl) ==
  [st EXCEPT !.url = cleanUrl, !.history = Append(@, "replaceState")]

\* window.history.pushState: the URL changes in a new history entry
pushState(st, cleanUrl) ==
  [st EXCEPT !.url = cleanUrl, !.history = Append(@, "pushState")]

\* variant: the status parameter is looked at before txHash and chainId
handleReturn_StatusFirst(st, r) ==
  IF st.url.memo = st.captured[r].memo
  THEN LET s3 == removeVisibilityHandler([replaceState(st, NoUrl) EXCEPT !.storage = NoRecord], r)
       IN IF st.url.status = "cancelled" THEN Settle(s3, r, Rejected(ErrCancelled))
          ELSE IF TruthyStr(st.url.txHash) /\ Truthy(st.url.chainId)
          THEN Settle(s3, r, Resolved(st.url.txHash, parseInt(st.url.chainId)))
          ELSE Settle(s3, r, Rejected(ErrFailed))
  ELSE st

\* variant: the cleaned URL is written with pushState, as a new history entry
handleReturn_PushesState(st, r) ==
  IF st.url.memo = st.captured[r].memo
  THEN LET s3 == removeVisibilityHandler([pushState(st, NoUrl) EXCEPT !.storage = NoRecord], r)
       IN IF TruthyStr(st.url.txHash) /\ Truthy(st.url.chainId)
          THEN Settle(s3, r, Resolved(st.url.txHash, parseInt(st.url.chainId)))
          ELSE IF st.url.status = "cancelled" THEN Settle(s3, r, Rejected(ErrCancelled))
          ELSE Settle(s3, r, Rejected(ErrFailed))
  ELSE st

\* handleReturn of the return handler of request r
handleReturn(st, r) ==
  LET returnedMemo == st.url.memo
      status == st.url.status
      txHash == st.url.txHash
      chainId == st.url.chainId
      s0 == Log(st, r, "handleReturn")
  IN IF returnedMemo = st.captured[r].memo
     THEN LET s1 == replaceState(s0, NoUrl)
              s2 == Log([s1 EXCEPT !.storage = NoRecord], r, "removeItem")
              s3 == removeVisibilityHandler(s2, r)
          IN IF TruthyStr(txHash) /\ Truthy(chainId)
             THEN Settle(s3, r, Resolved(txHash, parseInt(chainId)))
             ELSE IF status = "cancelled" THEN Settle(s3, r, Rejected(ErrCancelled))
             ELSE Settle(s3, r, Rejected(ErrFailed))
     ELSE s0

visibilityHandler(st, r, visibilityState) ==
  IF visibilityState = "visible" THEN handleReturn(st, r) ELSE st

\* variant: the timeout rejects and removes the listener, the record stays
cleanupTimeoutFires_KeepsRecord(st, r) ==
  Settle(removeVisibilityHandler(st, r), r, Rejected(ErrTimeout))

\* the callback scheduled by setupReturnUrlHandler (cleanupTimeout)
cleanupTimeoutFires(st, r) ==
  LET s1 == removeVisibilityHandler(st, r)
      s2 == Settle(s1, r, Rejected(ErrTimeout))
  IN Log([s2 EXCEPT !.storage = NoRecord], r, "removeItem")

setupReturnUrlHandler(st, r, memo) ==
  LET s0 == [st EXCEPT !.captured[r].memo = memo]
      s1 == Log([s0 EXCEPT !.visibilityHandlers = Append(@, r)], r, "addEventListener")
      s2 == handleReturn(s1, r)
      s3 == setTimeout(s2, r)
  IN IF s3.storage.present THEN Log([s3 EXCEPT !.storage.timeoutId = r], r, "setItem timeoutId")
     ELSE s3

\* variant: the timer of the record that is overwritten is left running
handleRedirectPayment_KeepsStaleTimer(st, r, payload, redirectUrl) ==
  LET s0 == [st EXCEPT !.path[r] = "redirect"]
      derived == IF Truthy(payload.memo) THEN [ok |-> TRUE, memo |-> payload.memo]
                 ELSE createValidMemoFromUUID(payload.addressOrEns)
  IN IF ~derived.ok THEN Settle(s0, r, Rejected(ErrMemoTooLong))
     ELSE
       LET memo == derived.memo
           s2 == [s0 EXCEPT !.storage =
                     [present |-> TRUE, memo |-> memo, timestamp |-> r,
                      redirectUrl |-> redirectUrl, timeoutId |-> 0]]
           s3 == setupReturnUrlHandler(s2, r, memo)
       IN IF ~NewURL(allowedOrigin).ok THEN Settle(s3, r, Rejected(ErrInvalidUrl))
          ELSE [s3 EXCEPT !.navigated =
                   Append(@, [id |-> r, origin |-> allowedOrigin, memo |-> memo])]

\* variant: the memo is derived after the stale timer was cleared and the record written
handleRedirectPayment_DerivesLate(st, r, payload, redirectUrl) ==
  LET s0 == [st EXCEPT !.path[r] = "redirect"]
      derived == IF Truthy(payload.memo) THEN [ok |-> TRUE, memo |-> payload.memo]
                 ELSE createValidMemoFromUUID(payload.addressOrEns)
      existingPayment == s0.storage
      s1 == IF existingPayment.present /\ existingPayment.timeoutId # 0
            THEN clearTimeout(s0, existingPayment.timeoutId) ELSE s0
      s2 == [s1 EXCEPT !.storage =
                [present |-> TRUE, memo |-> derived.memo, timestamp |-> r,
                 redirectUrl |-> redirectUrl, timeoutId |-> 0]]
  IN IF ~derived.ok THEN Settle(s2, r, Rejected(ErrMemoTooLong))
     ELSE
       LET s3 == setupReturnUrlHandler(s2, r, derived.memo)
       IN IF ~NewURL(allowedOrigin).ok THEN Settle(s3, r, Rejected(ErrInvalidUrl))
          ELSE [s3 EXCEPT !.navigated =
                   Append(@, [id |-> r, origin |-> allowedOrigin, memo |-> derived.memo])]

\* variant: the navigation is performed before the record is written and the return
\* handler installed
handleRedirectPayment_NavigatesFirst(st, r, payload, redirectUrl) ==
  LET s0 == [st EXCEPT !.path[r] = "redirect"]
      derived == IF Truthy(payload.memo) THEN [ok |-> TRUE, memo |-> payload.memo]
                 ELSE createValidMemoFromUUID(payload.addressOrEns)
  IN IF ~derived.ok THEN Settle(s0, r, Rejected(ErrMemoTooLong))
     ELSE IF ~NewURL(allowedOrigin).ok THEN Settle(s0, r, Rejected(ErrInvalidUrl))
     ELSE
       LET memo == derived.memo
           n == Log([s0 EXCEPT !.navigated =
                        Append(@, [id |-> r, origin |-> allowedOrigin, memo |-> memo])],
                    r, "location.href")
           existingPayment == n.storage
           s1 == IF existingPayment.present /\ existingPayment.timeoutId # 0
                 THEN clearTimeout(n, existingPayment.timeoutId) ELSE n
           s2 == Log([s1 EXCEPT !.storage =
                         [present |-> TRUE, memo |-> memo, timestamp |-> r,
                          redirectUrl |-> redirectUrl, timeoutId |-> 0]], r, "setItem")
       IN setupReturnUrlHandler(s2, r, memo)

\* variant: the record keeps the memo of the caller's config, derived or not
handleRedirectPayment_StoresCallerMemo(st, r, payload, redirectUrl) ==
  LET s0 == [st EXCEPT !.path[r] = "redirect"]
      derived == IF Truthy(payload.memo) THEN [ok |-> TRUE, memo |-> payload.memo]
                 ELSE createValidMemoFromUUID(payload.addressOrEns)
  IN IF ~derived.ok THEN Settle(s0, r, Rejected(ErrMemoTooLong))
     ELSE
       LET memo == derived.memo
           existingPayment == s0.storage
           s1 == IF existingPayment.present /\ existingPayment.timeoutId # 0
                 THEN clearTimeout(s0, existingPayment.timeoutId) ELSE s0
           s2 == Log([s1 EXCEPT !.storage =
                         [present |-> TRUE, memo |-> payload.memo, timestamp |-> r,
                          redirectUrl |-> redirectUrl, timeoutId |-> 0]], r, "setItem")
           s3 == setupReturnUrlHandler(s2, r, memo)
       IN IF ~NewURL(allowedOrigin).ok THEN Settle(s3, r, Rejected(ErrInvalidUrl))
          ELSE Log([s3 EXCEPT !.navigated =
                       Append(@, [id |-> r, origin |-> allowedOrigin, memo |-> memo])],
                   r, "location.href")

handleRedirectPayment(st, r, payload, redirectUrl) ==
  LET s0 == [st EXCEPT !.path[r] = "redirect"]
      derived == IF Truthy(payload.memo) THEN [ok |-> TRUE, memo |-> payload.memo]
                 ELSE createValidMemoFromUUID(payload.addressOrEns)
  IN IF ~derived.ok THEN Settle(s0, r, Rejected(ErrMemoTooLong))
     ELSE
       LET memo == derived.memo
           existingPayment == s0.storage
           s1 == IF existingPayment.present /\ existingPayment.timeoutId # 0
                 THEN clearTimeout(s0, existingPayment.timeoutId) ELSE s0
           s2 == Log([s1 EXCEPT !.storage =
                         [present |-> TRUE, memo |-> memo, timestamp |-> r,
                          redirectUrl |-> redirectUrl, timeoutId |-> 0]], r, "setItem")
           s3 == setupReturnUrlHandler(s2, r, memo)
       IN IF ~NewURL(allowedOrigin).ok THEN Settle(s3, r, Rejected(ErrInvalidUrl))
          ELSE Log([s3 EXCEPT !.navigated =
                       Append(@, [id |-> r, origin |-> allowedOrigin, memo |-> memo])],
                   r, "location.href")

(***************************************************************************)
(* PaymentManager.sendPaymentRequest                                       *)
(***************************************************************************)
\* typeof amount !== 'number' || amount <= 0
AmountRejected(amount) ==
  \/ amount.t = "undefined"
  \/ (amount.t = "number" /\ amount.v <= 0)

\* variant: the currency is checked before the memo
EntryValidation_CurrencyFirst(config) ==
  IF ~isValidFiatCurrency(config.currency) THEN ErrCurrency
  ELSE IF Truthy(config.memo) /\ ~isValidMemoSize(config.memo) THEN ErrMemo
  ELSE IF AmountRejected(config.amount) THEN ErrAmount
  ELSE "ok"

\* the first failing entry check, or "ok"
EntryValidation(config) ==
  IF Truthy(config.memo) /\ ~isValidMemoSize(config.memo) THEN ErrMemo
  ELSE IF ~isValidFiatCurrency(config.currency) THEN ErrCurrency
  ELSE IF AmountRejected(config.amount) THEN ErrAmount
  ELSE "ok"

\* variant: a redirectUrl selects the redirect path even when embedded
SelectTransport_PrefersRedirect(st, r, config) ==
  IF TruthyStr(config.redirectUrl)
  THEN handleRedirectPayment(st, r, config, config.redirectUrl)
  ELSE IF isInIframe THEN handleIframePayment(st, r, config)
  ELSE Settle(st, r, Rejected(ErrRedirect))

\* what follows entry validation: transport selection and the transport
SelectTransport(st, r, config) ==
  IF isInIframe THEN handleIframePayment(st, r, config)
  ELSE IF ~TruthyStr(config.redirectUrl) THEN Settle(st, r, Rejected(ErrRedirect))
  ELSE handleRedirectPayment(st, r, config, config.redirectUrl)

\* variant: the transport is started before the entry checks are evaluated
sendPaymentRequest_ValidatesLate(st, r, config) ==
  LET s0 == [st EXCEPT !.promise[r] = Pending]
      err == EntryValidation(config)
      s1 == SelectTransport(s0, r, config)
  IN IF err # "ok" THEN [s1 EXCEPT !.promise[r] = Rejected(err)] ELSE s1

sendPaymentRequest(st, r, config) ==
  LET s0 == [st EXCEPT !.promise[r] = Pending]
      err == EntryValidation(config)
  IN IF err # "ok" THEN Settle(s0, r, Rejected(err))
     ELSE SelectTransport(s0, r, config)

\* MessageManager.sendPaymentRequest of an embedded page (isInIframe() is true)
MessageManager_sendPaymentRequest(st, r, config) ==
  LET s0 == [st EXCEPT !.promise[r] = Pending]
      err == EntryValidation(config)
  IN IF err # "ok" THEN Settle(s0, r, Rejected(err))
     ELSE MessageManager_handleIframePayment(s0, r, config)

(***************************************************************************)
(* YappSDK: every operation checks the manager fields first.               *)
(***************************************************************************)
\* variant: the manager fields are not looked at
ensureInitialized_Unchecked == "ok"

\* "ok", or the message of the error thrown
ensureInitialized == IF messaging = "undefined" THEN ErrNotInitialized ELSE "ok"

YappSDK_requestPayment(st, r, config) ==
  IF ensureInitialized # "ok" THEN [st EXCEPT !.promise[r] = Rejected(ensureInitialized)]
  ELSE sendPaymentRequest(st, r, config)

YappSDK_getUserContext(st, r) ==
  IF ensureInitialized # "ok" THEN [st EXCEPT !.promise[r] = Rejected(ensureInitialized)]
  ELSE getUserContext(st, r)

\* the state a call of close leaves; what it throws is YappSDK_closeResult
YappSDK_close(st, targetOrigin) ==
  IF ensureInitialized # "ok" THEN st ELSE sendCloseMessage(st, targetOrigin)

YappSDK_closeResult(targetOrigin) ==
  IF ensureInitialized # "ok" THEN ensureInitialized
  ELSE sendMessageToParentResult(targetOrigin)

(***************************************************************************)
(* Inputs.                                                                 *)
(***************************************************************************)
Addresses == {AddrUuid, AddrHex}
Memos == {Absent, Memo1, MemoWide}
Currencies == {NoStr, "USD", "XYZ"}
Amounts == {Undefined, Num(-5), Num(0), Num(5), NaN, PosInfinity}
RedirectUrls == {NoStr, "https://app.example/cb"}

Configs ==
  [addressOrEns : Addresses, memo : Memos, currency : Currencies, amount : Amounts,
   redirectUrl : RedirectUrls]

\* query strings the host may send the browser back with
ReturnedMemos == {Memo1, <<97, 98>>}
Statuses == {NoStr, "cancelled"}
ReturnedTx ==
  { [txHash |-> NoStr, chainId |-> Absent], [txHash |-> "0xdead", chainId |-> <<49>>],
    [txHash |-> "", chainId |-> <<49>>] }

ReturnUrls ==
  {NoUrl} \cup
  { [memo |-> m, status |-> s, txHash |-> t.txHash, chainId |-> t.chainId] :
      m \in ReturnedMemos, s \in Statuses, t \in ReturnedTx }

\* payloads a message of a kind may carry
PayloadsOf(type) ==
  IF type = PAYMENT_SUCCESS
  THEN {[txHash |-> "0xaaa", chainId |-> Num(1), ensName |-> Absent],
        [txHash |-> "0xbbb", chainId |-> Num(10), ensName |-> Absent]}
  ELSE IF type = ENS_NOT_FOUND
  THEN {NoPayload, [txHash |-> NoStr, chainId |-> Undefined, ensName |-> AddrEns]}
  ELSE {NoPayload}

(***************************************************************************)
(* Specification.                                                          *)
(***************************************************************************)
Init ==
  /\ allowedOrigin \in ConfigOrigins
  /\ win \in Windows
  /\ messageListeners = [k \in MessageKinds |-> <<>>]
  /\ timer = [r \in ReqIds |-> "none"]
  /\ promise = [r \in ReqIds |-> NoOutcome]
  /\ path = [r \in ReqIds |-> "none"]
  /\ captured = [r \in ReqIds |-> [addressOrEns |-> <<>>, memo |-> Absent, listeners |-> 0]]
  /\ posted = <<>>
  /\ storage = NoRecord
  /\ visibilityHandlers = <<>>
  /\ url = NoUrl
  /\ navigated = <<>>
  /\ history = <<>>
  /\ contextListeners = 0
  /\ messageHooks = CommunicationManager_constructor
  /\ calls = <<>>
  /\ messaging = "set"
  /\ memoInput = <<>>
  /\ memoResult = NotApplied
  /\ memoAgain = NotApplied
  /\ memoValid = "not called"
  /\ ev = NoEvent

\* the next unused request
NextRequest(r) == promise[r].k = "none" /\ \A q \in ReqIds : q < r => promise[q].k # "none"

\* the caller invokes sendPaymentRequest(addressOrEns, config)
SendPaymentRequest ==
  \E r \in ReqIds, config \in Configs :
    /\ NextRequest(r)
    /\ Becomes(sendPaymentRequest(State, r, config))
    /\ ev' = [NoEvent EXCEPT !.op = "sendPaymentRequest", !.id = r, !.url = url,
                              !.config = [config EXCEPT !.addressOrEns = <<>>]]
    /\ UNCHANGED fixed

\* a 'message' event is dispatched on the window
WindowMessage ==
  \E origin \in SenderOrigins, type \in MessageKinds :
   \E payload \in PayloadsOf(type) :
    LET event == [origin |-> origin, type |-> type, payload |-> payload]
    IN /\ Becomes(dispatchMessage(State, event, messageHooks))
       /\ ev' = [NoEvent EXCEPT !.op = "message", !.origin = origin]
       /\ UNCHANGED fixed

\* the timer of request r fires
TimerFire(r) ==
  /\ timer[r] = "armed"
  /\ LET s1 == [State EXCEPT !.timer[r] = "fired"]
     IN Becomes(CASE path[r] = "iframe" -> paymentTimeoutFires(s1, r)
                  [] path[r] = "userContext" -> userContextTimeoutFires(s1, r)
                  [] path[r] = "MessageManager.userContext" ->
                       MessageManager_userContextTimeoutFires(s1, r)
                  [] path[r] = "MessageManager.iframe" ->
                       MessageManager_paymentTimeoutFires(s1, r)
                  [] OTHER -> cleanupTimeoutFires(s1, r))
  /\ ev' = [NoEvent EXCEPT !.op = "timer", !.id = r]
  /\ UNCHANGED fixed

TimerFires == \E r \in ReqIds : TimerFire(r)

RECURSIVE dispatchVisibility(_, _, _)
dispatchVisibility(st, handlers, visibilityState) ==
  IF handlers = <<>> THEN st
  ELSE dispatchVisibility(visibilityHandler(st, Head(handlers), visibilityState),
                          Tail(handlers), visibilityState)

\* a 'visibilitychange' event is dispatched on the document
VisibilityChange ==
  \E visibilityState \in {"visible", "hidden"} :
    /\ Becomes(dispatchVisibility(State, visibilityHandlers, visibilityState))
    /\ ev' = [NoEvent EXCEPT !.op = "visibilitychange", !.type = visibilityState,
                              !.url = url]
    /\ UNCHANGED fixed

\* the host sends the browser back with query parameters
ReturnFromHost ==
  \E params \in ReturnUrls :
    /\ navigated # <<>>
    /\ url' = params
    /\ ev' = [NoEvent EXCEPT !.op = "return"]
    /\ UNCHANGED <<messageListeners, timer, promise, path, captured, posted, storage,
                   visibilityHandlers, navigated, history, contextListeners>>
    /\ calls' = <<>>
    /\ UNCHANGED fixed

Next ==
  \/ SendPaymentRequest
  \/ WindowMessage
  \/ TimerFires
  \/ VisibilityChange
  \/ ReturnFromHost

Spec == Init /\ [][Next]_vars

\* a timer that stays armed fires: setTimeout callbacks are run by the event loop
FairSpec == Init /\ [][Next]_vars /\ \A r \in ReqIds : WF_vars(TimerFire(r))

\* the page is reloaded: listeners, handlers and timers of the old document are gone,
\* its promises are never settled; sessionStorage, the URL and the session history stay
Reload ==
  /\ messageListeners' = [k \in MessageKinds |-> <<>>]
  /\ timer' = [r \in ReqIds |-> IF timer[r] = "armed" THEN "lost" ELSE timer[r]]
  /\ visibilityHandlers' = <<>>
  /\ ev' = [NoEvent EXCEPT !.op = "reload"]
  /\ UNCHANGED <<promise, path, captured, posted, storage, url, navigated, history,
                 contextListeners>>
  /\ calls' = <<>>
  /\ UNCHANGED fixed

NextWithReload == Next \/ Reload

\* the page may be reloaded at any time; timers that stay armed fire
ReloadSpec ==
  Init /\ [][NextWithReload]_vars /\ \A r \in ReqIds : WF_vars(TimerFire(r))

(***************************************************************************)
(* createValidMemoFromUUID on its own: applied to a string, then to its    *)
(* own result.                                                             *)
(***************************************************************************)
\* hyphens, "a"s, hyphens, euro signs, and optionally one two-byte and one four-byte
\* character
MemoInputs ==
  { Repeat(45, h) \o Repeat(97, a) \o Repeat(45, h) \o Repeat(8364, w) \o t :
      h \in 0..MaxHyphen, a \in 0..MaxAscii, w \in 0..MaxWide,
      t \in {<<>>, <<241>>, <<128512>>} }

MemoInit ==
  /\ allowedOrigin = "https://yodl.me"
  /\ win = TopWindow
  /\ messageListeners = [k \in MessageKinds |-> <<>>]
  /\ timer = [r \in ReqIds |-> "none"]
  /\ promise = [r \in ReqIds |-> NoOutcome]
  /\ path = [r \in ReqIds |-> "none"]
  /\ captured = [r \in ReqIds |-> [addressOrEns |-> <<>>, memo |-> Absent, listeners |-> 0]]
  /\ posted = <<>>
  /\ storage = NoRecord
  /\ visibilityHandlers = <<>>
  /\ url = NoUrl
  /\ navigated = <<>>
  /\ history = <<>>
  /\ contextListeners = 0
  /\ messageHooks = CommunicationManager_constructor
  /\ calls = <<>>
  /\ messaging = "set"
  /\ ev = NoEvent
  /\ memoInput \in MemoInputs
  /\ memoResult = NotApplied
  /\ memoAgain = NotApplied
  /\ memoValid = "not called"

sdkVars ==
  <<allowedOrigin, win, messageListeners, timer, promise, path, captured, posted,
    storage, visibilityHandlers, url, navigated, history, contextListeners, messaging,
    messageHooks, calls, ev>>

\* createValidMemoFromUUID(memoInput)
ApplyCreateValidMemo ==
  /\ memoResult = NotApplied
  /\ memoResult' = createValidMemoFromUUID(memoInput)
  /\ UNCHANGED <<memoInput, memoAgain, memoValid>>
  /\ UNCHANGED sdkVars

\* createValidMemoFromUUID(createValidMemoFromUUID(memoInput))
ApplyCreateValidMemoAgain ==
  /\ memoResult.ok
  /\ memoAgain = NotApplied
  /\ memoAgain' = createValidMemoFromUUID(memoResult.memo)
  /\ UNCHANGED <<memoInput, memoResult, memoValid>>
  /\ UNCHANGED sdkVars

\* isValidMemoSize(memoInput)
ApplyIsValidMemoSize ==
  /\ memoValid = "not called"
  /\ memoValid' = IF isValidMemoSize(memoInput) THEN "true" ELSE "false"
  /\ UNCHANGED <<memoInput, memoResult, memoAgain>>
  /\ UNCHANGED sdkVars

MemoNext == ApplyCreateValidMemo \/ ApplyCreateValidMemoAgain \/ ApplyIsValidMemoSize

MemoSpec == MemoInit /\ [][MemoNext]_vars

(***************************************************************************)
(* isOriginAllowed on its own: a manager configured with any of the        *)
(* strings, asked about any of them.                                       *)
(***************************************************************************)
OriginStrings ==
  {"https://yodl.me", "https://yodl.me:443", "https://yodl.me:8443", "http://yodl.me",
   "https://yodl.me/pay", "https://evil.example", "blob:https://yodl.me/1f",
   "yodl.me", "null", "*", ""}

\* nothing was requested, nothing is registered, persisted or scheduled
Idle ==
  /\ messageListeners = [k \in MessageKinds |-> <<>>]
  /\ timer = [r \in ReqIds |-> "none"]
  /\ promise = [r \in ReqIds |-> NoOutcome]
  /\ path = [r \in ReqIds |-> "none"]
  /\ captured = [r \in ReqIds |-> [addressOrEns |-> <<>>, memo |-> Absent, listeners |-> 0]]
  /\ posted = <<>>
  /\ storage = NoRecord
  /\ visibilityHandlers = <<>>
  /\ url = NoUrl
  /\ navigated = <<>>
  /\ history = <<>>
  /\ contextListeners = 0
  /\ messageHooks = CommunicationManager_constructor
  /\ calls = <<>>
  /\ messaging = "set"
  /\ memoInput = <<>>
  /\ memoResult = NotApplied
  /\ memoAgain = NotApplied
  /\ memoValid = "not called"
  /\ ev = NoEvent

OriginInit ==
  /\ allowedOrigin \in OriginStrings
  /\ win = FramedWindow
  /\ Idle

\* isOriginAllowed(origin)
IsOriginAllowed ==
  \E origin \in OriginStrings :
    /\ ev' = [NoEvent EXCEPT !.op = "isOriginAllowed", !.origin = origin,
                              !.result = IF isOriginAllowed(origin) THEN "true" ELSE "false"]
    /\ UNCHANGED <<messageListeners, timer, promise, path, captured, posted, storage,
                   visibilityHandlers, url, navigated, history, contextListeners>>
    /\ calls' = <<>>
    /\ UNCHANGED fixed

OriginSpec == OriginInit /\ [][IsOriginAllowed]_vars

(***************************************************************************)
(* The facade with CommunicationManager and PaymentManager behind it: the  *)
(* page may have no window (server-side rendering), and the manager fields *)
(* of the facade may still be unset after construction (the older          *)
(* initialize awaits the key import before it sets them).                  *)
(***************************************************************************)
MaxPosted == 3

AllWindows == {TopWindow, FramedWindow, CrossOriginFramedWindow, NoWindow}

\* target origins passed to close
CloseTargets == {"https://yodl.me", "https://yodl.me:443", "https://evil.example"}

\* user contexts, by their address: "0x1", "0x2"
UserContexts == {<<48, 120, 49>>, <<48, 120, 50>>}

\* payment configs without a redirect URL
SdkConfigs ==
  {c \in Configs : /\ c.addressOrEns = AddrHex /\ c.memo = Absent /\ c.currency = "USD"
                   /\ c.amount \in {Num(0), Num(5)} /\ c.redirectUrl = NoStr}

SdkInit ==
  /\ allowedOrigin \in ConfigOrigins
  /\ win \in AllWindows
  /\ messageListeners = [k \in MessageKinds |-> <<>>]
  /\ timer = [r \in ReqIds |-> "none"]
  /\ promise = [r \in ReqIds |-> NoOutcome]
  /\ path = [r \in ReqIds |-> "none"]
  /\ captured = [r \in ReqIds |-> [addressOrEns |-> <<>>, memo |-> Absent, listeners |-> 0]]
  /\ posted = <<>>
  /\ storage = NoRecord
  /\ visibilityHandlers = <<>>
  /\ url = NoUrl
  /\ navigated = <<>>
  /\ history = <<>>
  /\ contextListeners = 0
  /\ messageHooks = CommunicationManager_constructor
  /\ calls = <<>>
  /\ messaging \in {"undefined", "set"}
  /\ memoInput = <<>>
  /\ memoResult = NotApplied
  /\ memoAgain = NotApplied
  /\ memoValid = "not called"
  /\ ev = NoEvent

\* the pending initialize of the facade sets the manager fields
InitializeCompletes ==
  /\ messaging = "undefined"
  /\ messaging' = "set"
  /\ ev' = [NoEvent EXCEPT !.op = "initialize"]
  /\ UNCHANGED <<messageListeners, timer, promise, path, captured, posted, storage,
                 visibilityHandlers, url, navigated, history, contextListeners>>
  /\ calls' = <<>>
  /\ UNCHANGED <<allowedOrigin, win, messageHooks, memoInput, memoResult, memoAgain,
                 memoValid>>

\* sdk.requestPayment(addressOrEns, config)
RequestPayment ==
  \E r \in ReqIds, config \in SdkConfigs :
    /\ NextRequest(r)
    /\ Becomes(YappSDK_requestPayment(State, r, config))
    /\ ev' = [NoEvent EXCEPT !.op = "requestPayment", !.id = r]
    /\ UNCHANGED fixed

\* sdk.getUserContext()
GetUserContext ==
  \E r \in ReqIds :
    /\ NextRequest(r)
    /\ Becomes(YappSDK_getUserContext(State, r))
    /\ ev' = [NoEvent EXCEPT !.op = "getUserContext", !.id = r]
    /\ UNCHANGED fixed

\* sdk.close(targetOrigin)
Close ==
  \E targetOrigin \in CloseTargets :
    /\ Len(posted) < MaxPosted
    /\ Becomes(YappSDK_close(State, targetOrigin))
    /\ ev' = [NoEvent EXCEPT !.op = "close", !.origin = targetOrigin,
                              !.result = YappSDK_closeResult(targetOrigin)]
    /\ UNCHANGED fixed

\* isInIframe()
IsInIframe ==
  /\ ev' = [NoEvent EXCEPT !.op = "isInIframe",
                            !.result = IF isInIframe THEN "true" ELSE "false"]
  /\ UNCHANGED <<messageListeners, timer, promise, path, captured, posted, storage,
                 visibilityHandlers, url, navigated, history, contextListeners>>
  /\ calls' = <<>>
  /\ UNCHANGED fixed

\* a USER_CONTEXT_RESPONSE 'message' event is dispatched on the window
ContextMessage ==
  \E origin \in SenderOrigins, payload \in UserContexts :
    LET event == [origin |-> origin, type |-> USER_CONTEXT_RESPONSE, payload |-> payload]
    IN /\ win # NoWindow
       /\ Becomes(dispatchMessage(State, event, messageHooks))
       /\ ev' = [NoEvent EXCEPT !.op = "message", !.origin = origin,
                                 !.type = USER_CONTEXT_RESPONSE, !.payload = payload]
       /\ UNCHANGED fixed

SdkNext ==
  \/ InitializeCompletes
  \/ RequestPayment
  \/ GetUserContext
  \/ Close
  \/ IsInIframe
  \/ ContextMessage
  \/ TimerFires

SdkSpec == SdkInit /\ [][SdkNext]_vars

(***************************************************************************)
(* MessageManager (utils) on its own, embedded in the host's page.         *)
(***************************************************************************)
MessageManagerInit ==
  /\ allowedOrigin = "https://yodl.me"
  /\ win = FramedWindow
  /\ Idle

\* messageManager.getUserContext()
MessageManagerGetUserContext ==
  \E r \in ReqIds :
    /\ NextRequest(r)
    /\ Becomes(MessageManager_getUserContext(State, r))
    /\ ev' = [NoEvent EXCEPT !.op = "getUserContext", !.id = r]
    /\ UNCHANGED fixed

\* a USER_CONTEXT_RESPONSE 'message' event is dispatched on the window
MessageManagerContextMessage ==
  \E origin \in SenderOrigins, payload \in UserContexts :
    LET event == [origin |-> origin, type |-> USER_CONTEXT_RESPONSE, payload |-> payload]
    IN /\ Becomes(MessageManager_onMessage(State, event))
       /\ ev' = [NoEvent EXCEPT !.op = "message", !.origin = origin,
                                 !.type = USER_CONTEXT_RESPONSE, !.payload = payload]
       /\ UNCHANGED fixed

\* messageManager.sendPaymentRequest(address, config)
MessageManagerSendPaymentRequest ==
  \E r \in ReqIds, config \in SdkConfigs :
    /\ NextRequest(r)
    /\ isInIframe
    /\ Becomes(MessageManager_sendPaymentRequest(State, r, config))
    /\ ev' = [NoEvent EXCEPT !.op = "sendPaymentRequest", !.id = r]
    /\ UNCHANGED fixed

\* a PAYMENT_SUCCESS or PAYMENT_CANCELLED 'message' event is dispatched on the window
MessageManagerPaymentMessage ==
  \E origin \in SenderOrigins, type \in {PAYMENT_SUCCESS, PAYMENT_CANCELLED} :
   \E payload \in PayloadsOf(type) :
    LET event == [origin |-> origin, type |-> type, payload |-> payload]
    IN /\ Becomes(MessageManager_onMessage(State, event))
       /\ ev' = [NoEvent EXCEPT !.op = "message", !.origin = origin, !.type = type]
       /\ UNCHANGED fixed

MessageManagerNext ==
  \/ MessageManagerGetUserContext
  \/ MessageManagerContextMessage
  \/ MessageManagerSendPaymentRequest
  \/ MessageManagerPaymentMessage
  \/ TimerFires

MessageManagerSpec == MessageManagerInit /\ [][MessageManagerNext]_vars

(***************************************************************************)
(* The listener registry of CommunicationManager on its own, embedded in   *)
(* the host's page: callbacks are registered and removed directly, as a    *)
(* subclass does, and messages are delivered.                              *)
(***************************************************************************)
MaxCallbacks == 2
MaxListeners == 3

\* callbacks that touch nothing of the SDK
Callbacks == {<<c, "callback">> : c \in 1..MaxCallbacks}

RegistryKinds == {PAYMENT_SUCCESS, PAYMENT_CANCELLED}

RegistryInit ==
  /\ allowedOrigin = "https://yodl.me"
  /\ win = FramedWindow
  /\ Idle

\* addMessageListener(messageType, listener)
AddMessageListener ==
  \E messageType \in RegistryKinds, listener \in Callbacks :
    /\ Len(messageListeners[messageType]) < MaxListeners
    /\ Becomes(addMessageListener(State, messageType, listener))
    /\ ev' = [NoEvent EXCEPT !.op = "addMessageListener", !.type = messageType,
                              !.id = listener[1]]
    /\ UNCHANGED fixed

\* removeMessageListener(messageType, listener)
RemoveMessageListener ==
  \E messageType \in RegistryKinds, listener \in Callbacks :
    /\ Becomes(removeMessageListener(State, messageType, listener))
    /\ ev' = [NoEvent EXCEPT !.op = "removeMessageListener", !.type = messageType,
                              !.id = listener[1]]
    /\ UNCHANGED fixed

\* a 'message' event of one of the kinds is dispatched on the window
RegistryMessage ==
  \E origin \in SenderOrigins, type \in RegistryKinds :
    LET event == [origin |-> origin, type |-> type, payload |-> NoPayload]
    IN /\ Becomes(dispatchMessage(State, event, messageHooks))
       /\ ev' = [NoEvent EXCEPT !.op = "message", !.origin = origin, !.type = type]
       /\ UNCHANGED fixed

RegistryNext == AddMessageListener \/ RemoveMessageListener \/ RegistryMessage

RegistrySpec == RegistryInit /\ [][RegistryNext]_vars

(***************************************************************************)
(* Properties.                                                             *)
(***************************************************************************)
Settled(r) == promise[r].k \in {"resolved", "rejected"}

\* the step is the call of sendPaymentRequest for request r
Called(r) == promise[r].k = "none" /\ promise'[r].k # "none"

\* C1: a settled promise keeps its outcome: whatever message, return, visibility
\* event or timer comes after the first terminal outcome, the caller's result stays
C1_FirstOutcomeWins ==
  [][\A r \in ReqIds : Settled(r) => promise'[r] = promise[r]]_vars

\* a redirect request resolved by its return handler whose timer fired afterwards
C1_Witness ==
  \E r \in ReqIds : promise[r].k = "resolved" /\ path[r] = "redirect" /\ timer[r] = "fired"

\* C2: every request that got past entry validation and transport selection is
\* eventually settled, given that armed timers fire
C2_EventuallySettled ==
  \A r \in ReqIds : (promise[r].k = "pending") ~> Settled(r)

ValidationErrors == {ErrMemo, ErrCurrency, ErrAmount}

\* C3: a call rejected by entry validation posts no message, registers no listener,
\* starts no timer, writes no pending record and navigates nowhere
C3_ValidationRejectsWithoutEffect ==
  [][\A r \in ReqIds :
       (Called(r) /\ promise'[r].k = "rejected" /\ promise'[r].msg \in ValidationErrors)
         => UNCHANGED <<posted, messageListeners, timer, storage, visibilityHandlers,
                        navigated, url, path>>]_vars

\* a call rejected for its amount while an earlier request is in flight
C3_Witness ==
  /\ ev.op = "sendPaymentRequest"
  /\ promise[ev.id] = Rejected(ErrAmount)
  /\ \E q \in ReqIds : promise[q].k = "pending"

MemoTooLarge(config) ==
  config.memo # Absent /\ config.memo # <<>> /\ Utf8Length(config.memo) > 32

CurrencyUnknown(config) == config.currency \notin FiatCurrency

AmountNotPositiveNumber(config) ==
  config.amount.t = "undefined" \/ (config.amount.t = "number" /\ config.amount.v <= 0)

\* C4: the error of a call is that of the first failing check in the order memo,
\* currency, amount, whatever the embedding and the redirectUrl; a call that fails
\* none of them is not rejected by entry validation
C4_ValidationOrder ==
  ev.op = "sendPaymentRequest" =>
    LET out == promise[ev.id]
        c == ev.config
    IN IF MemoTooLarge(c) THEN out = Rejected(ErrMemo)
       ELSE IF CurrencyUnknown(c) THEN out = Rejected(ErrCurrency)
       ELSE IF AmountNotPositiveNumber(c) THEN out = Rejected(ErrAmount)
       ELSE out.msg \notin ValidationErrors

\* a call with an oversized memo, an unknown currency and a zero amount
C4_Witness ==
  /\ ev.op = "sendPaymentRequest"
  /\ ev.config.memo = MemoWide /\ ev.config.currency = "XYZ" /\ ev.config.amount = Num(0)
  /\ promise[ev.id] = Rejected(ErrMemo)

AmountFinitePositive(config) == config.amount.t = "number" /\ config.amount.v > 0

\* C5: a call that omits currency, amount or both, and is valid otherwise, is not
\* rejected by entry validation
C5_OmittedFieldsAccepted ==
  LET c == ev.config IN
  ( /\ ev.op = "sendPaymentRequest"
    /\ ~MemoTooLarge(c)
    /\ c.currency = NoStr \/ c.currency \in FiatCurrency
    /\ c.amount = Undefined \/ AmountFinitePositive(c)
    /\ c.currency = NoStr \/ c.amount = Undefined )
  => promise[ev.id].msg \notin ValidationErrors

\* C6: a provided amount is rejected with the amount error exactly when it is not a
\* finite number greater than 0
C6_AmountFinitePositive ==
  LET c == ev.config IN
  ( /\ ev.op = "sendPaymentRequest"
    /\ ~MemoTooLarge(c)
    /\ c.currency \in FiatCurrency
    /\ c.amount # Undefined )
  => (promise[ev.id] = Rejected(ErrAmount) <=> ~AmountFinitePositive(c))

Embedded == win.self # win.top

\* C7: past entry validation an embedded guest takes the in-frame path, with or
\* without redirectUrl; a guest that is not embedded takes the redirect path when
\* redirectUrl is given and is otherwise rejected, nothing having been set up
C7_TransportSelection ==
  [][\A r \in ReqIds :
       (Called(r) /\ promise'[r].msg \notin ValidationErrors) =>
         IF Embedded THEN path'[r] = "iframe"
         ELSE IF ev'.config.redirectUrl \notin {NoStr, ""} THEN path'[r] = "redirect"
         ELSE /\ promise'[r] = Rejected(ErrRedirect)
              /\ path'[r] = "none"
              /\ UNCHANGED <<storage, visibilityHandlers, timer, navigated, posted,
                             messageListeners, url>>]_vars

\* a call rejected for its missing redirectUrl while a pending record is persisted
C7_Witness ==
  /\ ev.op = "sendPaymentRequest"
  /\ promise[ev.id] = Rejected(ErrRedirect)
  /\ storage.present

ListenersOf(r) ==
  {k \in MessageKinds : \E i \in 1..Len(messageListeners[k]) : messageListeners[k][i][1] = r}

\* the sender's origin and the configured origin are not the same origin
OriginDiffers(origin) ==
  LET a == NewURL(allowedOrigin)
      o == NewURL(origin)
  IN ~(a.ok /\ o.ok /\ a.scheme = o.scheme /\ a.host = o.host /\ a.port = o.port)

\* C8: when the PAYMENT_REQUEST of an in-frame request cannot be sent (the target
\* origin is rejected, or there is no parent window), the request is rejected with
\* that send error, its timer is cancelled (so it never fires and no timeout error
\* comes), no listener of it is registered and nothing was posted for it
C8_SendFailureCleansUp ==
  \A r \in ReqIds :
    (path[r] = "iframe" /\ (OriginDiffers(allowedOrigin) \/ win.parent = win.self)) =>
      /\ promise[r] = Rejected(IF OriginDiffers(allowedOrigin) THEN ErrOrigin ELSE ErrNotIframe)
      /\ timer[r] = "cleared"
      /\ ListenersOf(r) = {}
      /\ \A i \in 1..Len(posted) : posted[i].id # r

\* an in-frame request rejected because the configured origin is no URL
C8_Witness ==
  \E r \in ReqIds : path[r] = "iframe" /\ promise[r] = Rejected(ErrOrigin)

\* C9: a message from an origin other than the configured one changes nothing: no
\* listener runs, the registry and the timers stay, no promise is settled
C9_ForeignMessageIgnored ==
  [][(ev'.op = "message" /\ OriginDiffers(ev'.origin)) =>
       UNCHANGED <<messageListeners, timer, promise, path, captured, posted, storage,
                   visibilityHandlers, url, navigated>>]_vars

\* a foreign message was handled while a request waits with its listeners registered
C9_Witness ==
  /\ ev.op = "message" /\ ev.origin = "https://evil.example"
  /\ allowedOrigin = "https://yodl.me"
  /\ \E r \in ReqIds : promise[r].k = "pending" /\ ListenersOf(r) = ResponseKinds
                        /\ timer[r] = "armed"

\* the outcome the return parameters stand for; a parameter that is absent or empty
\* counts as not present
ReturnOutcome(u) ==
  IF u.txHash \notin {NoStr, ""} /\ u.chainId \notin {Absent, <<>>}
  THEN Resolved(u.txHash, IF u.chainId = <<49>> THEN Num(1) ELSE NaN)
  ELSE IF u.status = "cancelled" THEN Rejected(ErrCancelled)
  ELSE Rejected(ErrFailed)

\* the first installed return handler whose memo the query carries, or 0
RECURSIVE FirstMatching(_, _)
FirstMatching(handlers, memo) ==
  IF handlers = <<>> THEN 0
  ELSE IF captured[Head(handlers)].memo = memo THEN Head(handlers)
  ELSE FirstMatching(Tail(handlers), memo)

\* C10: when a return handler of a pending request sees its memo, at installation
\* or on becoming visible, the request is settled by txHash, chainId and status alone:
\* success when txHash and chainId are there, whatever the status; else cancelled
\* when status=cancelled; else failed
C10_ReturnOutcome ==
  [][ /\ (ev'.op = "visibilitychange" /\ ev'.type = "visible") =>
           \A r \in ReqIds :
             (r = FirstMatching(visibilityHandlers, url.memo) /\ promise[r].k = "pending")
               => promise'[r] = ReturnOutcome(url)
      /\ \A r \in ReqIds :
           (Called(r) /\ path'[r] = "redirect" /\ url.memo # Absent
              /\ captured'[r].memo = url.memo)
             => promise'[r] = ReturnOutcome(url)
    ]_vars

\* a return with txHash, chainId and status=cancelled resolved a request
C10_Witness ==
  /\ ev.op = "visibilitychange"
  /\ ev.url.status = "cancelled" /\ ev.url.txHash = "0xdead" /\ ev.url.chainId = <<49>>
  /\ \E r \in ReqIds : path[r] = "redirect" /\ promise[r] = Resolved("0xdead", Num(1))
                        /\ captured[r].memo = ev.url.memo

InHandlers(handlers, r) == \E i \in 1..Len(handlers) : handlers[i] = r

\* the step let the return handler of request r see its own memo
SeesOwnMemo(r) ==
  \/ /\ ev'.op = "visibilitychange" /\ ev'.type = "visible"
     /\ r = FirstMatching(visibilityHandlers, url.memo)
  \/ /\ Called(r) /\ path'[r] = "redirect"
     /\ url.memo # Absent /\ captured'[r].memo = url.memo

\* C11: when the return handler of a request sees its memo, the step that delivers
\* the outcome has removed the payment parameters from the URL with one replaceState
\* (no history entry is added), removed the record from session storage and removed
\* the request's visibility listener; a removed listener is never installed again
C11_ReturnCleansUp ==
  [][\A r \in ReqIds :
       /\ SeesOwnMemo(r) =>
            /\ url' = NoUrl
            /\ history' = Append(history, "replaceState")
            /\ ~storage'.present
            /\ ~InHandlers(visibilityHandlers', r)
       /\ (path[r] = "redirect" /\ ~InHandlers(visibilityHandlers, r))
            => ~InHandlers(visibilityHandlers', r)]_vars

\* a visibility change let a request see its memo in the return URL
C11_Witness ==
  /\ ev.op = "visibilitychange" /\ ev.url.memo # Absent
  /\ history = <<"replaceState">> /\ url = NoUrl /\ ~storage.present
  /\ \E r \in ReqIds : /\ path[r] = "redirect" /\ captured[r].memo = ev.url.memo
                        /\ promise[r] = Rejected(ErrCancelled)
                        /\ ~InHandlers(visibilityHandlers, r)

\* C12: a return URL whose memo is not the memo of the persisted pending record is
\* ignored when the page becomes visible: the record stays as it is, the URL is not
\* rewritten and no promise is settled
C12_ForeignReturnIgnored ==
  [][( /\ ev'.op = "visibilitychange" /\ ev'.type = "visible"
       /\ storage.present
       /\ url.memo # Absent /\ url.memo # storage.memo )
       => UNCHANGED <<storage, url, history, promise>>]_vars

\* the step is a redirect request r that got its memo and went on to persist its record
StartsRedirect(r) ==
  Called(r) /\ path'[r] = "redirect" /\ promise'[r] # Rejected(ErrMemoTooLong)

\* C13: a redirect request that starts while a record carrying a timeout handle is
\* persisted cancels that timer; a cancelled timer never fires, and the request it
\* belonged to gets no timeout error afterwards
C13_StaleTimerCancelled ==
  [][\A r \in ReqIds :
       /\ (StartsRedirect(r) /\ storage.present /\ storage.timeoutId \in ReqIds)
            => /\ timer'[storage.timeoutId] = "cleared"
               /\ storage'.timeoutId # storage.timeoutId
       /\ timer[r] = "cleared" =>
            /\ timer'[r] = "cleared"
            /\ promise'[r] = Rejected(ErrTimeout) => promise[r] = Rejected(ErrTimeout)]_vars

\* a second redirect request superseded the first, whose timer is cancelled and
\* whose promise is still pending
C13_Witness ==
  /\ ev.op = "sendPaymentRequest" /\ ev.id = 2 /\ path[2] = "redirect"
  /\ path[1] = "redirect" /\ timer[1] = "cleared" /\ promise[1].k = "pending"
  /\ storage.present /\ storage.timeoutId = 2

\* C14: when the timer of a redirect request fires while the request is pending (no
\* return with its memo was seen), the request is rejected with the timed-out error,
\* its visibility listener is removed and session storage holds no pending record
C14_RedirectTimeout ==
  [][\A r \in ReqIds :
       (ev'.op = "timer" /\ ev'.id = r /\ path[r] = "redirect" /\ promise[r].k = "pending")
         => /\ promise'[r] = Rejected(ErrTimeout)
            /\ ~InHandlers(visibilityHandlers', r)
            /\ ~storage'.present]_vars

\* the timer of a redirect request fired after the host sent the browser back with
\* another memo: the request timed out and its record is gone
C14_Witness ==
  /\ ev.op = "timer" /\ path[ev.id] = "redirect"
  /\ promise[ev.id] = Rejected(ErrTimeout)
  /\ url.memo # Absent /\ url.memo # captured[ev.id].memo
  /\ ~storage.present /\ visibilityHandlers = <<>>

\* C15: a pending record that is persisted when the page is reloaded is eventually
\* cleared from session storage, by a return with its memo or by expiry
C15_RecordClearedAfterReload ==
  (ev.op = "reload" /\ storage.present) ~> ~storage.present

\* the outcome of request r came with a message of the host
DeliveredByMessage(r) ==
  /\ path[r] = "iframe"
  /\ promise[r].k = "resolved" \/ promise[r].msg \in {ErrCancelled, ErrEns}

\* C16: an in-frame request whose outcome came with a success, cancellation or
\* named-error message has its timer cancelled, in every state from then on: the
\* timer never fires after the outcome
C16_MessageCancelsTimer ==
  \A r \in ReqIds : DeliveredByMessage(r) => timer[r] = "cleared"

\* a success message resolved an in-frame request
C16_Witness ==
  /\ ev.op = "message"
  /\ \E r \in ReqIds : path[r] = "iframe" /\ promise[r] = Resolved("0xaaa", Num(1))
                        /\ timer[r] = "cleared"

\* the outcome of request r is one the return handler delivers
DeliveredByReturn(r) ==
  /\ path[r] = "redirect"
  /\ promise[r].k = "resolved" \/ promise[r].msg \in {ErrCancelled, ErrFailed}

\* C17: the timer of a redirect request whose outcome the return handler delivered
\* does not fire
C17_ReturnCancelsTimer ==
  \A r \in ReqIds : DeliveredByReturn(r) => timer[r] # "fired"

WithoutHyphens(s) == SelectSeq(s, LAMBDA c : c # 45)

C18_WitnessThrown ==
  /\ memoResult = [ok |-> FALSE, memo |-> <<>>]
  /\ Utf8Length(WithoutHyphens(memoInput)) = 33

\* C19: with the recipients callers use (a UUID-like identifier, a 42-character 0x
\* address) no redirect request fails because the memo derived from the recipient
\* does not fit: the request goes on to persist its record
C19_DerivedMemoFits ==
  \A r \in ReqIds : path[r] = "redirect" => promise[r] # Rejected(ErrMemoTooLong)

\* C20: a redirect request rejected because the derived memo does not fit has
\* persisted nothing, cancelled no timer, installed no handler and no timer and has
\* not navigated; a record persisted before stays as it was
C20_DerivationFailureWithoutEffect ==
  [][\A r \in ReqIds :
       (Called(r) /\ path'[r] = "redirect" /\ promise'[r] = Rejected(ErrMemoTooLong))
         => UNCHANGED <<storage, timer, visibilityHandlers, navigated, url, history,
                        posted, messageListeners, captured>>]_vars

\* a request failed on its derived memo while the record of an earlier request is
\* persisted and that request's timer is running
C20_Witness ==
  /\ ev.op = "sendPaymentRequest" /\ ev.id = 2
  /\ promise[2] = Rejected(ErrMemoTooLong)
  /\ storage.present /\ storage.timeoutId = 1 /\ timer[1] = "armed"

\* bytes of the UTF-8 encoding of a string: 1 byte up to U+007F, 2 up to U+07FF, 3 up
\* to U+FFFF, 4 above
RECURSIVE EncodedBytes(_)
EncodedBytes(s) ==
  IF s = <<>> THEN 0
  ELSE (CASE Head(s) <= 127 -> 1 [] Head(s) \in 128..2047 -> 2
          [] Head(s) \in 2048..65535 -> 3 [] OTHER -> 4) + EncodedBytes(Tail(s))

\* C21: isValidMemoSize(m) is true exactly when m encodes to at most 32 UTF-8 bytes:
\* 32 bytes and the empty memo are accepted, 33 bytes are rejected, characters count
\* by their encoded bytes
C21_MemoSize ==
  memoValid # "not called" => (memoValid = "true" <=> EncodedBytes(memoInput) <= 32)

\* a memo of 11 characters that takes 33 bytes was rejected
C21_Witness ==
  memoValid = "false" /\ Len(memoInput) = 11 /\ EncodedBytes(memoInput) = 33

\* C24: isOriginAllowed(candidate) is true exactly when the candidate and the
\* configured origin both parse as URLs and have the same scheme, host and port
C24_OriginGuard ==
  ev.op = "isOriginAllowed" => (ev.result = "true" <=> ~OriginDiffers(ev.origin))

\* C23: every PAYMENT_REQUEST posted to the parent belongs to a request on the
\* in-frame path and has the configured origin as its target origin; nothing is
\* posted for a request on the redirect path
C23_PaymentRequestTarget ==
  \A i \in 1..Len(posted) :
    /\ path[posted[i].id] # "redirect"
    /\ posted[i].type = "PAYMENT_REQUEST" =>
         path[posted[i].id] = "iframe" /\ posted[i].targetOrigin = allowedOrigin

\* two in-frame requests were posted to the host
C23_Witness ==
  /\ Len(posted) = 2
  /\ \A i \in 1..2 : posted[i] = [type |-> "PAYMENT_REQUEST",
                                   targetOrigin |-> "https://yodl.me", id |-> i]

\* C29: an in-frame request that has its outcome (by a success, cancellation or
\* named-error message, by the timeout, or by a failed send) has no listener
\* registered under any kind, so no later message invokes a callback of it
C29_SettledHasNoListener ==
  \A r \in ReqIds : (path[r] = "iframe" /\ Settled(r)) => ListenersOf(r) = {}

\* a message of the host was handled after an in-frame request had timed out
C29_Witness ==
  /\ ev.op = "message" /\ ~OriginDiffers(ev.origin)
  /\ \E r \in ReqIds : /\ path[r] = "iframe" /\ promise[r] = Rejected(ErrTimeout)
                        /\ timer[r] = "fired" /\ ListenersOf(r) = {}

\* C30: the timeout of an in-frame request removes the listeners of that request
\* and rejects it with the timed-out error; an in-frame request that is still
\* waiting keeps its three listeners and its running timer, whatever timeouts of
\* other requests have fired
C30_TimeoutRemovesOwnListeners ==
  \A r \in ReqIds :
    /\ (path[r] = "iframe" /\ timer[r] = "fired")
         => promise[r] = Rejected(ErrTimeout) /\ ListenersOf(r) = {}
    /\ (path[r] = "iframe" /\ promise[r].k = "pending")
         => ListenersOf(r) = ResponseKinds /\ timer[r] = "armed"

\* the timeout of one in-frame request fired while another one is waiting
C30_Witness ==
  /\ ev.op = "timer"
  /\ promise[ev.id] = Rejected(ErrTimeout) /\ path[ev.id] = "iframe"
  /\ \E q \in ReqIds : /\ q # ev.id /\ path[q] = "iframe" /\ promise[q].k = "pending"
                        /\ ListenersOf(q) = ResponseKinds /\ timer[q] = "armed"

\* a parent window distinct from the own window exists
HasParent == win # NoWindow /\ win.parent # win.self

\* C22: a call of close on an initialised SDK whose target origin passes the origin
\* guard, in a window with a parent distinct from itself, posts exactly one CLOSE
\* message with that target origin; with a rejected origin or without such a parent
\* it throws and posts nothing.  No step posts more than one message, and every
\* message posted has a target origin that passes the guard
C22_SendToParent ==
  [][/\ (ev'.op = "close" /\ messaging = "set") =>
          IF isOriginAllowed(ev'.origin) /\ HasParent
          THEN /\ ev'.result = "ok"
               /\ posted' = Append(posted, [type |-> "CLOSE", targetOrigin |-> ev'.origin,
                                            id |-> 0])
          ELSE /\ ev'.result = (IF isOriginAllowed(ev'.origin) THEN ErrNotIframe
                                ELSE ErrOrigin)
               /\ posted' = posted
     /\ posted' # posted =>
          /\ Len(posted') = Len(posted) + 1
          /\ SubSeq(posted', 1, Len(posted)) = posted
          /\ isOriginAllowed(posted'[Len(posted')].targetOrigin)
          /\ HasParent]_vars

\* close('https://yodl.me:443') posted a CLOSE message to the parent
C22_Witness ==
  /\ ev.op = "close" /\ ev.result = "ok" /\ ev.origin = "https://yodl.me:443"
  /\ posted # <<>>
  /\ posted[Len(posted)] = [type |-> "CLOSE", targetOrigin |-> "https://yodl.me:443", id |-> 0]

\* request r asked for the user context and its message was sent
ContextSent(r) ==
  /\ path[r] \in {"userContext", "MessageManager.userContext"}
  /\ \E i \in 1..Len(posted) : posted[i].type = "USER_CONTEXT_REQUEST" /\ posted[i].id = r

\* C25: a user context request whose message was sent is settled once; while it
\* waits, a USER_CONTEXT_RESPONSE from the allowed origin resolves it with the
\* payload of that message, the firing of its timer rejects it with the timed-out
\* error and leaves its listener unregistered, and no other step settles it; once
\* its timer has fired its listener is never registered again
C25_UserContextOutcome ==
  [][\A r \in ReqIds : ContextSent(r) =>
       /\ promise[r].k # "pending" => promise'[r] = promise[r]
       /\ promise[r].k = "pending" =>
            IF ev'.op = "message" /\ ev'.type = USER_CONTEXT_RESPONSE
                 /\ ~OriginDiffers(ev'.origin)
            THEN promise'[r] = ResolvedWith(ev'.payload)
            ELSE IF ev'.op = "timer" /\ ev'.id = r
            THEN promise'[r] = Rejected(ErrContextTimeout) /\ ListenersOf(r)' = {}
            ELSE promise'[r] = Pending
       /\ timer[r] = "fired" => ListenersOf(r)' = {}]_vars

\* C26: without a window object getUserContext rejects with 'Cannot access window
\* object'; no listener is registered, no timer is started, nothing is posted
C26_NoWindowRejectsContext ==
  \A r \in ReqIds : (path[r] = "userContext" /\ win = NoWindow) =>
    /\ promise[r] = Rejected(ErrNoWindow)
    /\ ListenersOf(r) = {}
    /\ timer[r] = "none"
    /\ posted = <<>>

\* getUserContext was called without a window
C26_Witness ==
  /\ win = NoWindow /\ ev.op = "getUserContext"
  /\ path[ev.id] = "userContext" /\ promise[ev.id] = Rejected(ErrNoWindow)

\* C27: isInIframe returns false without a window and when window.self is
\* window.top, true when they differ and true when reading window.top throws; it
\* returns in every case
C27_IsInIframe ==
  ev.op = "isInIframe" =>
    ev.result = (CASE win = NoWindow -> "false"
                   [] win # NoWindow /\ win.top = "SecurityError" -> "true"
                   [] win # NoWindow /\ win.top = win.self -> "false"
                   [] OTHER -> "true")

\* isInIframe returned true in a frame whose window.top cannot be read
C27_Witness ==
  win = CrossOriginFramedWindow /\ ev.op = "isInIframe" /\ ev.result = "true"

\* C28: while the manager fields of the facade are unset, requestPayment,
\* getUserContext and close fail with the not-initialised error and no manager was
\* called: nothing is registered, scheduled or posted; once the fields are set none
\* of the three fails with that error
C28_NotInitialized ==
  /\ messaging = "undefined" =>
       /\ posted = <<>>
       /\ \A r \in ReqIds : /\ path[r] = "none" /\ timer[r] = "none" /\ ListenersOf(r) = {}
                            /\ promise[r] \in {NoOutcome, Rejected(ErrNotInitialized)}
       /\ ev.op \in {"requestPayment", "getUserContext"}
            => promise[ev.id] = Rejected(ErrNotInitialized)
       /\ ev.op = "close" => ev.result = ErrNotInitialized
  /\ messaging = "set" =>
       /\ ev.op \in {"requestPayment", "getUserContext"}
            => promise[ev.id] # Rejected(ErrNotInitialized)
       /\ ev.op = "close" => ev.result # ErrNotInitialized

\* the first call failed before the fields were set, the second one went through
C28_Witness ==
  /\ messaging = "set"
  /\ promise[1] = Rejected(ErrNotInitialized) /\ path[1] = "none"
  /\ ev.op = "getUserContext" /\ ev.id = 2
  /\ path[2] = "userContext" /\ promise[2] = Pending

\* C31: a message of kind K from the allowed origin calls the callbacks registered
\* for K, each once and in the order of registration, and leaves no callback
\* registered for K and the lists of the other kinds as they were; so a second
\* message of K calls nothing, and a message of a kind without callbacks changes
\* nothing.  A message from another origin calls nothing and changes nothing
C31_DeliverOnceInOrder ==
  [][ev'.op = "message" =>
       IF OriginDiffers(ev'.origin)
       THEN calls' = <<>> /\ messageListeners' = messageListeners
       ELSE /\ calls' = messageListeners[ev'.type]
            /\ messageListeners' = [messageListeners EXCEPT ![ev'.type] = <<>>]]_vars

\* callback 2 was registered before callback 1, and a message called them in that order
C31_Witness ==
  /\ ev.op = "message" /\ ev.type = PAYMENT_SUCCESS
  /\ calls = << <<2, "callback">>, <<1, "callback">>, <<2, "callback">> >>
  /\ messageListeners[PAYMENT_SUCCESS] = <<>>
  /\ messageListeners[PAYMENT_CANCELLED] # <<>>

\* the callback that ev names
EvCallback(e) == <<e.id, "callback">>

\* C32: addMessageListener appends the callback to the list of its kind;
\* removeMessageListener takes every occurrence of the callback, and nothing
\* else, out of the list of its kind, keeping the order of the others, and leaves
\* no entry when the list became empty; neither of them changes the list of
\* another kind or calls a callback; removing an unregistered callback changes
\* nothing
C32_RegistryFrame ==
  [][/\ ev'.op = "addMessageListener" =>
          /\ messageListeners' =
               [messageListeners EXCEPT ![ev'.type] = Append(@, EvCallback(ev'))]
          /\ calls' = <<>>
     /\ ev'.op = "removeMessageListener" =>
          /\ messageListeners' =
               [messageListeners EXCEPT ![ev'.type] =
                  SelectSeq(@, LAMBDA l : l # EvCallback(ev'))]
          /\ (\A i \in 1..Len(messageListeners[ev'.type]) :
                 messageListeners[ev'.type][i] # EvCallback(ev'))
               => messageListeners' = messageListeners
          /\ calls' = <<>>]_vars

\* callback 1 was removed from between two registrations of callback 2
C32_Witness ==
  /\ ev.op = "removeMessageListener" /\ ev.id = 1 /\ ev.type = PAYMENT_CANCELLED
  /\ messageListeners[PAYMENT_CANCELLED] = << <<2, "callback">>, <<2, "callback">> >>
  /\ messageListeners[PAYMENT_SUCCESS] = << <<1, "callback">> >>

\* C33: the manager has one 'message' listener on window when it was constructed
\* in a browser and none otherwise, whatever operations were called since
C33_OneMessageHook ==
  messageHooks = (IF win = NoWindow THEN 0 ELSE 1)

\* a payment request, a user context request and a close were made in a frame
C33_Witness ==
  /\ messageHooks = 1
  /\ path[1] = "iframe" /\ path[2] = "userContext"
  /\ ev.op = "close" /\ ev.result = "ok"

\* the callees of a list of calls
Callees(c) == [i \in 1..Len(c) |-> c[i][2]]

\* the calls of the step without the cancellation of the stale timer it starts with
AfterStaleTimer(c) == IF c # <<>> /\ c[1][2] = "clearTimeout" THEN Tail(c) ELSE c

\* the callees of a redirect request, in the order of the claim; the first URL check
\* either leaves the record, and the timer handle is stored in it, or matches and
\* removes the record
RedirectOrders ==
  LET kept == <<"setItem", "addEventListener", "handleReturn", "setTimeout",
                "setItem timeoutId">>
      matched == <<"setItem", "addEventListener", "handleReturn", "removeItem",
                   "setTimeout">>
  IN {kept, matched, Append(kept, "location.href"), Append(matched, "location.href")}

\* C34: a redirect request cancels the stale timer, if any, then persists the
\* record, installs the return handler, makes the first URL check, starts the
\* timeout, stores its handle in the record, and navigates last; a navigation is
\* preceded by the write of the record and the installation of the handler
C34_RedirectOrder ==
  (/\ ev.op = "sendPaymentRequest" /\ path[ev.id] = "redirect"
   /\ promise[ev.id] # Rejected(ErrMemoTooLong)) =>
    /\ Callees(AfterStaleTimer(calls)) \in RedirectOrders
    /\ \A i \in 1..Len(AfterStaleTimer(calls)) : AfterStaleTimer(calls)[i][1] = ev.id
    /\ (calls[1][2] = "clearTimeout") => calls[1][1] # ev.id
    /\ (navigated # <<>> /\ navigated[Len(navigated)].id = ev.id)
         <=> calls[Len(calls)] = <<ev.id, "location.href">>

\* the second redirect request cancelled the timer of the first and went through
\* all steps
C34_Witness ==
  /\ ev.op = "sendPaymentRequest" /\ ev.id = 2
  /\ calls = << <<1, "clearTimeout">>, <<2, "setItem">>, <<2, "addEventListener">>,
                <<2, "handleReturn">>, <<2, "setTimeout">>, <<2, "setItem timeoutId">>,
                <<2, "location.href">> >>

\* C35: a redirect request navigates to the host only while its promise is not
\* settled
C35_NoNavigationAfterSettled ==
  (/\ ev.op = "sendPaymentRequest"
   /\ \E i \in 1..Len(calls) : calls[i] = <<ev.id, "location.href">>)
    => promise[ev.id].k = "pending"

\* C36: the memo of the record a redirect request wrote, the memo of its
\* navigation URL and the memo its return handler compares with are the same
\* value: the caller's memo when there is one, otherwise the memo derived from the
\* recipient
C36_OneMemo ==
  /\ \A i \in 1..Len(navigated) : navigated[i].memo = captured[navigated[i].id].memo
  /\ (storage.present /\ storage.timestamp \in ReqIds)
       => storage.memo = captured[storage.timestamp].memo
  /\ (ev.op = "sendPaymentRequest" /\ path[ev.id] = "redirect"
       /\ \E i \in 1..Len(calls) : calls[i] = <<ev.id, "setItem">>)
       => IF Truthy(ev.config.memo) THEN captured[ev.id].memo = ev.config.memo
          ELSE \E a \in Addresses :
                 createValidMemoFromUUID(a) = [ok |-> TRUE, memo |-> captured[ev.id].memo]

\* a request without memo was redirected with the memo derived from "a-b"
C36_Witness ==
  /\ ev.op = "sendPaymentRequest" /\ ev.config.memo = Absent
  /\ storage.present /\ storage.timestamp = ev.id /\ storage.memo = <<97, 98>>
  /\ navigated # <<>> /\ navigated[Len(navigated)] =
       [id |-> ev.id, origin |-> allowedOrigin, memo |-> <<97, 98>>]
  /\ captured[ev.id].memo = <<97, 98>>

\* the request whose handler or timer called removeItem first, 0 when none did
RECURSIVE FirstRemover(_)
FirstRemover(c) ==
  IF c = <<>> THEN 0
  ELSE IF Head(c)[2] = "removeItem" THEN Head(c)[1] ELSE FirstRemover(Tail(c))

\* C37: when a timer or a return handler removes the persisted record, it is the
\* timer or the handler of the request that wrote the record
C37_RecordRemovedByWriter ==
  [][(/\ ev'.op \in {"timer", "visibilitychange"}
      /\ storage.present /\ ~storage'.present)
       => FirstRemover(calls') = storage.timestamp]_vars

PendingInFrame(r) == path[r] = "iframe" /\ promise[r].k = "pending"

\* the kind under which the callbacks called by the step were registered
DeliveredKind(c) == IF c = <<>> THEN "" ELSE c[1][2]

\* C38: a PAYMENT_SUCCESS message from the allowed origin resolves every in-frame
\* request that is waiting, all with the same payload, and cancels the timer of
\* each; a PAYMENT_CANCELLED message rejects every one of them as cancelled
C38_OneMessageSettlesAll ==
  [][(ev'.op = "message" /\ ~OriginDiffers(ev'.origin)) =>
       \A r \in ReqIds : PendingInFrame(r) =>
         /\ DeliveredKind(calls') = PAYMENT_SUCCESS =>
              /\ promise'[r].k = "resolved" /\ timer'[r] = "cleared"
              /\ \A q \in ReqIds : PendingInFrame(q) => promise'[q] = promise'[r]
         /\ DeliveredKind(calls') = PAYMENT_CANCELLED =>
              promise'[r] = Rejected(ErrCancelled) /\ timer'[r] = "cleared"]_vars

\* one success message resolved two waiting requests
C38_Witness ==
  /\ ev.op = "message" /\ calls # <<>> /\ calls[1] = <<1, PAYMENT_SUCCESS>>
  /\ \E i \in 1..Len(calls) : calls[i] = <<2, PAYMENT_SUCCESS>>
  /\ path[1] = "iframe" /\ path[2] = "iframe"
  /\ promise[1].k = "resolved" /\ promise[2] = promise[1]
  /\ timer[1] = "cleared" /\ timer[2] = "cleared"

\* C39: in MessageManager (utils/MessageManager.ts) every in-frame payment request
\* that is not settled has its success and its cancellation listener registered
C39_UnsettledKeepsListeners ==
  \A r \in ReqIds : (path[r] = "MessageManager.iframe" /\ promise[r].k = "pending") =>
    {PAYMENT_SUCCESS, PAYMENT_CANCELLED} \subseteq ListenersOf(r)

====
